---- MODULE Spec2Model ----
(***************************************************************************)
(* Fixture lifecycle and automatic resource-cleanup engine of              *)
(* @kata/stack-tests: the world fixture and its teardown loop, the         *)
(* process-wide admin token cache, registerCleanup and the rule-based      *)
(* DefaultCleanupAdapter.                                                  *)
(*                                                                         *)
(* JavaScript strings that the code inspects character by character are    *)
(* modelled as sequences of one-character strings.                         *)
(***************************************************************************)
EXTENDS Integers, Sequences, FiniteSets, TLC

\* ------------------------------------------------------------------------
\* Bounds of the model
\* ------------------------------------------------------------------------
MaxTests == 2
MaxSteps == 3

\* ------------------------------------------------------------------------
\* String literals
\* ------------------------------------------------------------------------
UuidA == <<"5","5","0","e","8","4","0","0","-","e","2","9","b","-","4","1","d","4","-","a","7","1","6","-","4","4","6","6","5","5","4","4","0","0","0","0">>
UuidUpper == <<"5","5","0","E","8","4","0","0","-","E","2","9","B","-","4","1","D","4","-","A","7","1","6","-","4","4","6","6","5","5","4","4","A","B","C","D">>
UuidNoHyphens == <<"5","5","0","e","8","4","0","0","e","2","9","b","4","1","d","4","a","7","1","6","4","4","6","6","5","5","4","4","0","0","0","0">>
UuidBadChar == <<"5","5","0","e","8","4","0","0","-","e","2","9","b","-","4","1","d","4","-","a","7","1","6","-","4","4","6","6","5","5","4","4","0","0","0","g">>
UuidTooLong == <<"5","5","0","e","8","4","0","0","-","e","2","9","b","-","4","1","d","4","-","a","7","1","6","-","4","4","6","6","5","5","4","4","0","0","0","0","1">>
M_DELETE == <<"D","E","L","E","T","E">>
M_POST == <<"P","O","S","T">>
M_PATCH == <<"P","A","T","C","H">>
M_PUT == <<"P","U","T">>
M_post == <<"p","o","s","t">>
K_varMatch == <<"v","a","r","M","a","t","c","h">>
K_method == <<"m","e","t","h","o","d">>
K_path == <<"p","a","t","h">>
S_run == <<"r","u","n">>
S_test == <<"t","e","s","t">>
S_dunder == <<"_","_">>
K_access_token == <<"a","c","c","e","s","s","_","t","o","k","e","n">>
Tok1 == <<"t","1">>
Tok2 == <<"t","2">>
S_Bearer == <<"B","e","a","r","e","r"," ">>
S_42 == <<"4","2">>
S_undefined == <<"u","n","d","e","f","i","n","e","d">>
S_null == <<"n","u","l","l">>
S_true == <<"t","r","u","e">>
S_false == <<"f","a","l","s","e">>
S_objectObject == <<"[","o","b","j","e","c","t"," ","O","b","j","e","c","t","]">>
S_idToken == <<"{","i","d","}">>
S_id == <<"i","d">>
S_1 == <<"1">>
S_name == <<"n","a","m","e">>
S_prod == <<"p","r","o","d">>
S_x__y == <<"x","_","_","y">>
V_user_id == <<"u","s","e","r","_","i","d">>
V_test_user_id == <<"t","e","s","t","_","u","s","e","r","_","i","d">>
V_a__team == <<"a","_","_","t","e","a","m">>
V_run1a2buser == <<"r","u","n","1","a","2","b","u","s","e","r">>
V_run1user == <<"r","u","n","1","u","s","e","r">>
V_USER_TEST == <<"U","S","E","R","_","T","E","S","T">>
V_widget_test == <<"w","i","d","g","e","t","_","t","e","s","t">>
T_u_id == <<"/","u","/","{","i","d","}">>
T_u_1 == <<"/","u","/","1">>
T_t == <<"/","t">>
M_userPrefixRe == <<"/","^","u","s","e","r","/">>
P_x_id_id == <<"/","x","/","{","i","d","}","/","{","i","d","}">>
M_TEAM == <<"T","E","A","M">>
P_custom_teams == <<"/","c","u","s","t","o","m","/","t","e","a","m","s","/","{","i","d","}">>
S_api == <<"a","p","i">>
N_ui == <<"u","i">>
N_my_api_tests == <<"m","y","-","a","p","i","-","t","e","s","t","s">>
N_API == <<"A","P","I">>
U_api == <<"h","t","t","p",":","/","/","a","p","i",".","t","e","s","t">>
U_ct == <<"h","t","t","p",":","/","/","c","t",".","t","e","s","t">>
U_proj == <<"h","t","t","p",":","/","/","p","r","o","j",".","t","e","s","t">>
S_localhostPrefix == <<"h","t","t","p",":","/","/","l","o","c","a","l","h","o","s","t",":">>
S_localhost4000 == <<"h","t","t","p",":","/","/","l","o","c","a","l","h","o","s","t",":","4","0","0","0">>
E_5000 == <<"5","0","0","0">>
S_not == <<"n","o","t">>
S_and == <<"a","n","d">>
S_or == <<"o","r">>
S_orSep == <<" ","o","r"," ">>
G_smoke == <<"s","m","o","k","e">>
G_at_smoke == <<"@","s","m","o","k","e">>
G_smoke_critical == <<"s","m","o","k","e",",","c","r","i","t","i","c","a","l">>
G_at_smoke_or_at_critical == <<"@","s","m","o","k","e"," ","o","r"," ","@","c","r","i","t","i","c","a","l">>
G_at3_spaced == <<"@","s","m","o","k","e",","," ","@","c","r","i","t","i","c","a","l",","," ","@","r","e","g","r","e","s","s","i","o","n">>
G_at3_or == <<"@","s","m","o","k","e"," ","o","r"," ","@","c","r","i","t","i","c","a","l"," ","o","r"," ","@","r","e","g","r","e","s","s","i","o","n">>
G_at2 == <<"@","s","m","o","k","e",",","@","c","r","i","t","i","c","a","l">>
G_spaced2 == <<"s","m","o","k","e",","," ","c","r","i","t","i","c","a","l">>
G_not_at_slow == <<"n","o","t"," ","@","s","l","o","w">>
G_blank == <<" "," ">>
G_commas == <<",",",">>
G_smoke_padded == <<" ","s","m","o","k","e"," ">>
G_trailing == <<"s","m","o","k","e",",",",","c","r","i","t","i","c","a","l",",">>
H_true == <<"t","r","u","e">>
K_constructor == <<"c","o","n","s","t","r","u","c","t","o","r">>
K_toString == <<"t","o","S","t","r","i","n","g">>
K_valueOf == <<"v","a","l","u","e","O","f">>
K_hasOwnProperty == <<"h","a","s","O","w","n","P","r","o","p","e","r","t","y">>
K_isPrototypeOf == <<"i","s","P","r","o","t","o","t","y","p","e","O","f">>
K_propertyIsEnumerable == <<"p","r","o","p","e","r","t","y","I","s","E","n","u","m","e","r","a","b","l","e">>
K_toLocaleString == <<"t","o","L","o","c","a","l","e","S","t","r","i","n","g">>
K_proto == <<"_","_","p","r","o","t","o","_","_">>
N_Object == <<"O","b","j","e","c","t">>
S_functionPrefix == <<"f","u","n","c","t","i","o","n"," ">>
S_nativeCodeSuffix == <<"(",")"," ","{"," ","[","n","a","t","i","v","e"," ","c","o","d","e","]"," ","}">>
S_NaN == <<"N","a","N">>
S_Infinity == <<"I","n","f","i","n","i","t","y">>
S_0x == <<"0","x">>
S_0X == <<"0","X">>
S_adminDefault == <<"a","d","m","i","n","@","p","r","i","m","a",".","c","o","m">>
S_userDefault == <<"b","o","b","@","b","o","b",".","c","o","m">>
H_Authorization == <<"A","u","t","h","o","r","i","z","a","t","i","o","n">>
H_XTrace == <<"X","-","T","r","a","c","e">>
S_old == <<"B","e","a","r","e","r"," ","o","l","d">>
S_abc == <<"a","b","c">>
S_unauthorized == <<"u","n","a","u","t","h","o","r","i","z","e","d">>
S_detail == <<"d","e","t","a","i","l">>
S_html == <<"<","h","t","m","l",">">>
V_x == <<"x">>
V_n == <<"n">>
T_x == <<"{","x","}">>
T_unknown == <<"{","u","n","k","n","o","w","n","}">>
T_empty == <<"a","{","}","b">>
T_blank == <<"{","a"," ","b","}">>
T_open == <<"{","i","d">>
T_twice == <<"{","i","d","}","{","i","d","}">>
T_constructor == <<"/","u","/","{","c","o","n","s","t","r","u","c","t","o","r","}">>
T_x_id == <<"{","x","}","{","i","d","}">>
T_nested == <<"{","{","i","d","}","}">>
T_plain == <<"n","o"," ","v","a","r","s">>
T_proto == <<"{","_","_","p","r","o","t","o","_","_","}">>
T_n == <<"{","n","}">>
X_42p == <<" ","4","2"," ">>
X_1_5 == <<"1",".","5">>
X_1e3 == <<"1","e","3">>
X_0x1F == <<"0","x","1","F">>
X_negInf == <<"-","I","n","f","i","n","i","t","y">>
X_12px == <<"1","2","p","x">>
X_blank == <<" "," ">>
X_TRUE == <<"T","R","U","E">>
X_neg7 == <<"-","7">>
P_a == <<"a">>
P_a_b == <<"a",".","b">>
P_items0id == <<"i","t","e","m","s","[","0","]",".","i","d">>
P_items1 == <<"i","t","e","m","s","[","1","]">>
P_items2 == <<"i","t","e","m","s","[","2","]">>
P_itemsNeg == <<"i","t","e","m","s","[","-","1","]">>
P_itemsX == <<"i","t","e","m","s","[","x","]">>
P_itemsOpen == <<"i","t","e","m","s","[","0">>
P_missing == <<"m","i","s","s","i","n","g">>
P_missing_x == <<"m","i","s","s","i","n","g",".","x">>
P_missing0 == <<"m","i","s","s","i","n","g","[","0","]">>
P_id_x == <<"i","d",".","x">>
P_items_length == <<"i","t","e","m","s",".","l","e","n","g","t","h">>
P_items00 == <<"i","t","e","m","s","[","0","]","[","0","]">>
P_n0 == <<"n","[","0","]">>
P_n_x == <<"n",".","x">>
P_idx0 == <<"[","0","]">>
P_a_constructor == <<"a",".","c","o","n","s","t","r","u","c","t","o","r">>
P_a_space_b == <<"a"," ","b">>
K_a == <<"a">>
K_b == <<"b">>
K_items == <<"i","t","e","m","s">>
K_num == <<"n","u","m">>
K_dec == <<"d","e","c">>
K_yes == <<"y","e","s">>
K_nil == <<"n","i","l">>
K_s == <<"s">>
K_s42 == <<"s","4","2">>
K_st == <<"s","t">>
K_sn == <<"s","n">>
K_se == <<"s","e">>
V_v == <<"v">>
T_v == <<"{","v","}">>
P_dollar == <<"a","$","b">>
P_stray == <<"a","]">>
P_scalars == <<"/","s","c","a","l","a","r","s">>
E_1 == <<"1">>
E_TRUE == <<"T","R","U","E">>
E_yes == <<"y","e","s">>
E_On == <<"O","n">>
E_on == <<"o","n">>
E_0 == <<"0">>
E_truex == <<"t","r","u","e","x">>

defaultRules ==
  << [varMatch |-> <<"t","o","o","l","_","p","r","o","v","i","d","e","r">>,
      path |-> <<"/","a","d","m","i","n","/","t","o","o","l","/","p","r","o","v","i","d","e","r","s","/","{","i","d","}">>],
     [varMatch |-> <<"e","x","t","s","v","c">>,
      path |-> <<"/","a","d","m","i","n","/","t","o","o","l","/","e","x","t","e","r","n","a","l","-","s","e","r","v","i","c","e","s","/","{","i","d","}">>],
     [varMatch |-> <<"e","x","t","e","r","n","a","l","_","s","e","r","v","i","c","e">>,
      path |-> <<"/","a","d","m","i","n","/","t","o","o","l","/","e","x","t","e","r","n","a","l","-","s","e","r","v","i","c","e","s","/","{","i","d","}">>],
     [varMatch |-> <<"w","o","r","k","s","p","a","c","e">>,
      path |-> <<"/","a","d","m","i","n","/","w","o","r","k","s","p","a","c","e","s","/","{","i","d","}">>],
     [varMatch |-> <<"t","e","a","m">>,
      path |-> <<"/","a","d","m","i","n","/","t","e","a","m","s","/","{","i","d","}">>],
     [varMatch |-> <<"p","r","i","m","a","_","m","o","d","e","l">>,
      path |-> <<"/","a","d","m","i","n","/","l","l","m","/","p","r","i","m","a","-","m","o","d","e","l","s","/","{","i","d","}">>],
     [varMatch |-> <<"p","m">>,
      path |-> <<"/","a","d","m","i","n","/","l","l","m","/","p","r","i","m","a","-","m","o","d","e","l","s","/","{","i","d","}">>],
     [varMatch |-> <<"c","r","e","d">>,
      path |-> <<"/","a","d","m","i","n","/","l","l","m","/","p","r","o","v","i","d","e","r","-","c","r","e","d","e","n","t","i","a","l","s","/","{","i","d","}">>],
     [varMatch |-> <<"u","s","e","r">>,
      path |-> <<"/","a","d","m","i","n","/","u","s","e","r","s","/","{","i","d","}">>],
     [varMatch |-> <<"m","a","n","a","g","e","r">>,
      path |-> <<"/","a","d","m","i","n","/","u","s","e","r","s","/","{","i","d","}">>],
     [varMatch |-> <<"m","e","m","b","e","r">>,
      path |-> <<"/","a","d","m","i","n","/","u","s","e","r","s","/","{","i","d","}">>],
     [varMatch |-> <<"c","r","e","a","t","o","r">>,
      path |-> <<"/","a","d","m","i","n","/","u","s","e","r","s","/","{","i","d","}">>],
     [varMatch |-> <<"r","u","l","e">>,
      path |-> <<"/","a","d","m","i","n","/","l","l","m","/","g","u","a","r","d","r","a","i","l","-","r","u","l","e","s","/","{","i","d","}">>] >>

\* ------------------------------------------------------------------------
\* Character classes and string helpers
\* ------------------------------------------------------------------------
UpperChars == <<"A","B","C","D","E","F","G","H","I","J","K","L","M","N","O","P","Q","R","S","T","U","V","W","X","Y","Z">>
LowerChars == <<"a","b","c","d","e","f","g","h","i","j","k","l","m","n","o","p","q","r","s","t","u","v","w","x","y","z">>
DigitChars == <<"0","1","2","3","4","5","6","7","8","9">>

Range(f) == {f[i] : i \in DOMAIN f}

\* lower-case and upper-case forms of the ASCII letters
ToLowerTable == [c \in {UpperChars[i] : i \in 1..26} |-> LowerChars[CHOOSE i \in 1..26 : UpperChars[i] = c]]
ToUpperTable == [c \in {LowerChars[i] : i \in 1..26} |-> UpperChars[CHOOSE i \in 1..26 : LowerChars[i] = c]]

\* String.prototype.toLowerCase on one character
toLowerChar(c) == IF c \in DOMAIN ToLowerTable THEN ToLowerTable[c] ELSE c

toLowerCase(s) == [i \in 1..Len(s) |-> toLowerChar(s[i])]

\* String.prototype.toUpperCase on one character
toUpperChar(c) == IF c \in DOMAIN ToUpperTable THEN ToUpperTable[c] ELSE c

toUpperCase(s) == [i \in 1..Len(s) |-> toUpperChar(s[i])]

\* [0-9a-fA-F]
HexChars == Range(DigitChars) \cup {"a","b","c","d","e","f","A","B","C","D","E","F"}
IsHexChar(c) == c \in HexChars

\* [a-zA-Z0-9_-]
NameChars == Range(DigitChars) \cup Range(UpperChars) \cup Range(LowerChars) \cup {"_", "-"}
IsNameChar(c) == c \in NameChars

\* s has sub as a substring starting at position p
MatchesAt(s, sub, p) == p >= 1 /\ p + Len(sub) - 1 <= Len(s) /\ SubSeq(s, p, p + Len(sub) - 1) = sub

\* String.prototype.includes
includes(s, sub) == \E p \in 1..(Len(s) + 1) : MatchesAt(s, sub, p)

startsWith(s, sub) == MatchesAt(s, sub, 1)

endsWith(s, sub) == MatchesAt(s, sub, Len(s) - Len(sub) + 1)

\* Empty JavaScript object used as a map
EmptyMap == [k \in {} |-> k]

\* { ...a, ...b }: the keys of both, b winning on a collision
Spread(a, b) == [k \in DOMAIN a \cup DOMAIN b |-> IF k \in DOMAIN b THEN b[k] ELSE a[k]]

\* obj[key] = value
SetKey(obj, key, value) == [k \in DOMAIN obj \cup {key} |-> IF k = key THEN value ELSE obj[k]]

\* the copy is not reversed
ReverseKeepsOrder(seq) == seq

\* [...seq].reverse()
Reverse(seq) == [i \in 1..Len(seq) |-> seq[Len(seq) + 1 - i]]

\* ------------------------------------------------------------------------
\* JavaScript values that reach registerFromVar as id or meta
\* ------------------------------------------------------------------------
Undefined == [k |-> "undefined"]
JNull == [k |-> "null"]
JBool(b) == [k |-> "boolean", b |-> b]
\* numbers: an integer n; the non-integer m * 10^e, with e < 0 and m not a
\* multiple of 10; NaN; Infinity and -Infinity
JNum(n) == [k |-> "number", n |-> n]
JDec(m, e) == [k |-> "number", m |-> m, e |-> e]
JNaN == [k |-> "number", special |-> "NaN"]
JInfinity(negative) == [k |-> "number", special |-> IF negative THEN "-Infinity" ELSE "Infinity"]
IsInteger(v) == v.k = "number" /\ "n" \in DOMAIN v
IsNaN(v) == v = JNaN
IsFinite(v) == v.k = "number" /\ "special" \notin DOMAIN v
JStr(s) == [k |-> "string", s |-> s]
JArr(a) == [k |-> "array", a |-> a]
JObj(o) == [k |-> "object", o |-> o]
\* a built-in function, known by its name
JFun(name) == [k |-> "function", name |-> name]

\* decimal digits of a non-negative integer
RECURSIVE NatToString(_)
NatToString(n) ==
  IF n < 10 THEN <<DigitChars[n + 1]>>
  ELSE NatToString(n \div 10) \o <<DigitChars[(n % 10) + 1]>>

\* elements of a sequence of strings joined with a separator
RECURSIVE Join(_, _)
Join(parts, sep) ==
  IF Len(parts) = 0 THEN <<>>
  ELSE IF Len(parts) = 1 THEN parts[1]
  ELSE parts[1] \o sep \o Join(Tail(parts), sep)

\* decimal text of a number
NumberToString(v) ==
  IF IsInteger(v) THEN (IF v.n < 0 THEN <<"-">> \o NatToString(0 - v.n) ELSE NatToString(v.n))
  ELSE IF v = JNaN THEN S_NaN
  ELSE IF v = JInfinity(FALSE) THEN S_Infinity
  ELSE IF v = JInfinity(TRUE) THEN <<"-">> \o S_Infinity
  ELSE LET digits == NatToString(IF v.m < 0 THEN 0 - v.m ELSE v.m)
           places == 0 - v.e
           padded == [i \in 1..(IF Len(digits) > places THEN 0 ELSE places + 1 - Len(digits)) |-> "0"]
                       \o digits
           text == SubSeq(padded, 1, Len(padded) - places) \o <<".">>
                     \o SubSeq(padded, Len(padded) - places + 1, Len(padded))
       IN IF v.m < 0 THEN <<"-">> \o text ELSE text

\* String(value)
RECURSIVE JsString(_)
JsString(v) ==
  CASE v.k = "undefined" -> S_undefined
    [] v.k = "null" -> S_null
    [] v.k = "boolean" -> (IF v.b THEN S_true ELSE S_false)
    [] v.k = "number" -> NumberToString(v)
    [] v.k = "string" -> v.s
    [] v.k = "array" ->
         Join([i \in 1..Len(v.a) |->
                 IF v.a[i].k \in {"undefined", "null"} THEN <<>> ELSE JsString(v.a[i])], <<",">>)
    [] v.k = "object" -> S_objectObject
    [] v.k = "function" -> S_functionPrefix \o v.name \o S_nativeCodeSuffix

\* !value
IsFalsy(v) ==
  \/ v.k \in {"undefined", "null"}
  \/ v.k = "boolean" /\ ~v.b
  \/ v.k = "number" /\ (v = JNum(0) \/ v = JNaN)
  \/ v.k = "string" /\ v.s = <<>>

\* JSON.stringify(value) for values whose strings need no escaping
RECURSIVE JSONstringify(_)
JSONstringify(v) ==
  CASE v.k = "null" -> S_null
    [] v.k = "boolean" -> (IF v.b THEN S_true ELSE S_false)
    [] v.k = "number" -> (IF IsFinite(v) THEN NumberToString(v) ELSE S_null)
    [] v.k = "string" -> <<"\"">> \o v.s \o <<"\"">>
    [] v.k = "array" ->
         <<"[">> \o Join([i \in 1..Len(v.a) |->
                            IF v.a[i].k = "undefined" THEN S_null ELSE JSONstringify(v.a[i])], <<",">>) \o <<"]">>
    [] v.k = "object" ->
         <<"{">> \o Join([i \in 1..Len(v.o) |->
                            <<"\"">> \o v.o[i][1] \o <<"\"", ":">> \o JSONstringify(v.o[i][2])], <<",">>) \o <<"}">>

\* ------------------------------------------------------------------------
\* utils.ts
\* ------------------------------------------------------------------------
\* first position at or after j that does not hold a name character
RECURSIVE NameEnd(_, _)
NameEnd(t, j) == IF j <= Len(t) /\ IsNameChar(t[j]) THEN NameEnd(t, j + 1) ELSE j

\* what a plain object inherits from Object.prototype: obj[key] finds these
\* when obj has no own property of that name
ObjectPrototype ==
  [key \in {K_constructor, K_toString, K_valueOf, K_hasOwnProperty, K_isPrototypeOf,
            K_propertyIsEnumerable, K_toLocaleString, K_proto} |->
     IF key = K_constructor THEN JFun(N_Object)
     ELSE IF key = K_proto THEN JObj(<<>>)
     ELSE JFun(key)]

\* vars[key] for the plain object vars, whose own properties hold strings
VarsLookup(vmap, key) ==
  IF key \in DOMAIN vmap THEN JStr(vmap[key])
  ELSE IF key \in DOMAIN ObjectPrototype THEN ObjectPrototype[key]
  ELSE Undefined

\* one left-to-right pass of replace(/\{([a-zA-Z0-9_-]+)\}/g, ...) from position i
RECURSIVE interpolateFrom(_, _, _)
interpolateFrom(t, vmap, i) ==
  IF i > Len(t) THEN <<>>
  ELSE IF t[i] = "{"
       THEN LET j == NameEnd(t, i + 1) IN
            IF j > i + 1 /\ j <= Len(t) /\ t[j] = "}"
            THEN LET key == SubSeq(t, i + 1, j - 1)
                     v == VarsLookup(vmap, key)
                 IN (IF v.k = "undefined" THEN SubSeq(t, i, j) ELSE JsString(v))
                      \o interpolateFrom(t, vmap, j + 1)
            ELSE <<t[i]>> \o interpolateFrom(t, vmap, i + 1)
       ELSE <<t[i]>> \o interpolateFrom(t, vmap, i + 1)

interpolate(template, vmap) == interpolateFrom(template, vmap, 1)

\* the method type of a cleanup item: 'DELETE' | 'POST' | 'PATCH' | 'PUT'
Methods == {M_DELETE, M_POST, M_PATCH, M_PUT}

\* x.method ?? 'DELETE', for an object x whose method property may be absent
MethodOrDelete(x) == IF "method" \in DOMAIN x THEN x.method ELSE M_DELETE

\* only the item queued last is compared
IsQueuedLastOnly(queue, method, path) ==
  Len(queue) > 0 /\ queue[Len(queue)].method = method /\ queue[Len(queue)].path = path

\* world.cleanup.some((c) => c.method === method && c.path === item.path)
IsQueued(queue, method, path) ==
  \E i \in 1..Len(queue) : queue[i].method = method /\ queue[i].path = path

\* a repeated registration moves the item to the end of the queue
registerCleanupMovesToEnd(queue, item) ==
  LET method == MethodOrDelete(item) IN
  Append(SelectSeq(queue, LAMBDA c : ~(c.method = method /\ c.path = item.path)),
         [method |-> method, path |-> item.path])

\* registerCleanup(world, item): the queue after the call
registerCleanup(queue, item) ==
  LET method == MethodOrDelete(item) IN
  IF IsQueued(queue, method, item.path) THEN queue
  ELSE Append(queue, [method |-> method, path |-> item.path])

\* ------------------------------------------------------------------------
\* adapters/cleanup/default-cleanup.adapter.ts
\* ------------------------------------------------------------------------
\* /__|run[0-9a-fA-F]{4,}|test/i.test(s)
TestyRegexTest(s) ==
  LET lower == toLowerCase(s) IN
  \E p \in 1..Len(s) :
    \/ MatchesAt(s, S_dunder, p)
    \/ /\ MatchesAt(lower, S_run, p)
       /\ p + 6 <= Len(s)
       /\ \A q \in (p + 3)..(p + 6) : IsHexChar(s[q])
    \/ MatchesAt(lower, S_test, p)

\* looksTesty(meta)
looksTesty(meta) ==
  LET s == IF meta.k = "string" THEN meta.s
           ELSE JSONstringify(IF meta.k \in {"undefined", "null"} THEN JStr(<<>>) ELSE meta)
  IN TestyRegexTest(s)

\* the pattern without its end anchor
isUuidLikeUnanchored(value) ==
  /\ Len(value) >= 36
  /\ \A i \in 1..36 :
       IF i \in {9, 14, 19, 24} THEN value[i] = "-" ELSE IsHexChar(value[i])

\* isUuidLike(value): 8-4-4-4-12 hexadecimal groups
isUuidLike(value) ==
  /\ Len(value) = 36
  /\ \A i \in 1..36 :
       IF i \in {9, 14, 19, 24} THEN value[i] = "-" ELSE IsHexChar(value[i])

\* new RegExp(source).test(s), for a source made of literal name characters
\* with an optional leading ^ and an optional trailing $
RegExpTest(source, s) ==
  LET fromStart == Len(source) >= 1 /\ source[1] = "^"
      toEnd == Len(source) >= 1 /\ source[Len(source)] = "$"
      lit == SubSeq(source, IF fromStart THEN 2 ELSE 1, IF toEnd THEN Len(source) - 1 ELSE Len(source))
  IN \E p \in 1..(Len(s) + 1) :
       /\ MatchesAt(s, lit, p)
       /\ fromStart => p = 1
       /\ toEnd => p + Len(lit) - 1 = Len(s)

\* matchVar(rule, varNameLower)
matchVar(rule, varNameLower) ==
  LET m == rule.varMatch IN
  IF startsWith(m, <<"/">>) /\ endsWith(m, <<"/">>) /\ Len(m) > 2
  THEN RegExpTest(SubSeq(m, 2, Len(m) - 1), varNameLower)
  ELSE includes(varNameLower, toLowerCase(m))

\* obj[key] of a parsed JSON object, undefined when the key is absent
GetProp(obj, key) ==
  IF obj.k = "object" /\ \E i \in 1..Len(obj.o) : obj.o[i][1] = key
  THEN obj.o[CHOOSE i \in 1..Len(obj.o) : obj.o[i][1] = key /\ \A j \in (i + 1)..Len(obj.o) : obj.o[j][1] # key][2]
  ELSE Undefined

\* String(x ?? '')
StringOrEmpty(x) == IF x.k \in {"undefined", "null"} THEN <<>> ELSE JsString(x)

\* the rule that loadRulesFromEnv maps one array element to
RuleFromJson(x) ==
  LET varMatch == StringOrEmpty(GetProp(x, K_varMatch))
      path == StringOrEmpty(GetProp(x, K_path))
      method == GetProp(x, K_method)
  IN IF IsFalsy(method)
     THEN [varMatch |-> varMatch, path |-> path]
     ELSE [varMatch |-> varMatch, method |-> toUpperCase(JsString(method)), path |-> path]

IsJsonObjectLike(x) == ~IsFalsy(x) /\ x.k \in {"object", "array"}

HasVarMatchAndPath(r) == r.varMatch # <<>> /\ r.path # <<>>

\* loadRulesFromEnv(): raw is process.env.CLEANUP_RULES after JSON.parse,
\* [k |-> "unset"] when the variable is unset or blank and [k |-> "invalid"]
\* when it is not JSON
loadRulesFromEnv(raw) ==
  IF raw.k \in {"unset", "invalid"} THEN <<>>
  ELSE IF raw.k = "array"
       THEN LET objs == SelectSeq(raw.a, IsJsonObjectLike)
                mapped == [i \in 1..Len(objs) |-> RuleFromJson(objs[i])]
            IN SelectSeq(mapped, HasVarMatchAndPath)
       ELSE <<>>

\* /^(1|true|yes|on)$/i.test(s)
AllowAllRegexTest(s) == toLowerCase(s) \in {E_1, S_true, E_yes, E_on}

\* new DefaultCleanupAdapter(input): input is a record holding the options
\* that were passed, env holds CLEANUP_RULES (see loadRulesFromEnv) and
\* CLEANUP_ALLOW_ALL ('' when unset)
DefaultCleanupAdapter(input, penv) ==
  LET fromEnv == loadRulesFromEnv(penv.CLEANUP_RULES) IN
  [rules |-> IF "rules" \in DOMAIN input /\ Len(input.rules) > 0
             THEN input.rules
             ELSE fromEnv \o defaultRules,
   allowHeuristic |-> IF "allowHeuristic" \in DOMAIN input
                      THEN input.allowHeuristic
                      ELSE AllowAllRegexTest(penv.CLEANUP_ALLOW_ALL)]

\* s.replace(/\{id\}/g, rep), for a replacement without $ patterns
RECURSIVE ReplaceIdToken(_, _)
ReplaceIdToken(s, rep) ==
  IF Len(s) = 0 THEN <<>>
  ELSE IF MatchesAt(s, S_idToken, 1)
       THEN rep \o ReplaceIdToken(SubSeq(s, Len(S_idToken) + 1, Len(s)), rep)
       ELSE <<s[1]>> \o ReplaceIdToken(Tail(s), rep)

\* this.rules.find((r) => matchVar(r, name)), searching from index i:
\* index of the first match, 0 if none
RECURSIVE FindRuleFrom(_, _, _)
FindRuleFrom(rules, name, i) ==
  IF i > Len(rules) THEN 0
  ELSE IF matchVar(rules[i], name) THEN i
  ELSE FindRuleFrom(rules, name, i + 1)

\* the last matching rule is taken instead of the first
FindRuleLast(rules, name) ==
  LET matching == {i \in 1..Len(rules) : matchVar(rules[i], name)} IN
  IF matching = {} THEN 0 ELSE CHOOSE i \in matching : \A j \in matching : j <= i

FindRule(rules, name) == FindRuleFrom(rules, name, 1)

\* the heuristic check applied when the flag is set instead of when it is unset
PassesGateFlagInverted(adapter, varName, meta) ==
  ~(adapter.allowHeuristic /\ (~looksTesty(meta) /\ ~looksTesty(JStr(varName))))

\* the gate of registerFromVar: FALSE when the call returns at the heuristic check
PassesGate(adapter, varName, meta) ==
  ~(~adapter.allowHeuristic /\ (~looksTesty(meta) /\ ~looksTesty(JStr(varName))))

\* registerFromVar(world, varName, id, meta): the queue after the call
registerFromVar(adapter, queue, varName, id, meta) ==
  IF IsFalsy(id) THEN queue
  ELSE LET idStr == JsString(id) IN
       IF ~isUuidLike(idStr) THEN queue
       ELSE IF ~PassesGate(adapter, varName, meta) THEN queue
       ELSE LET name == toLowerCase(varName)
                r == FindRule(adapter.rules, name)
            IN IF r = 0 THEN queue
               ELSE registerCleanup(queue,
                      [method |-> MethodOrDelete(adapter.rules[r]),
                       path |-> ReplaceIdToken(adapter.rules[r].path, idStr)])

\* ------------------------------------------------------------------------
\* fixtures.ts: base URL of the apiRequest fixture
\* ------------------------------------------------------------------------
\* a || b
JsOr(a, b) == IF IsFalsy(a) THEN b ELSE a

\* the project's baseURL is used whatever the project is called
baseURLAnyProject(penv, proj) ==
  JsOr(penv.API_BASE_URL,
    JsOr(penv.CONTROL_TOWER_BASE_URL,
      JsOr(proj.baseURL,
        JsOr(IF ~IsFalsy(penv.CONTROL_TOWER_PORT)
             THEN JStr(S_localhostPrefix \o JsString(penv.CONTROL_TOWER_PORT))
             ELSE Undefined,
          JStr(S_localhost4000)))))

\* fixtures.ts:127-135: the baseURL handed to playwright.request.newContext;
\* penv is process.env, proj holds testInfo.project.name and
\* testInfo.project.use?.baseURL
baseURL(penv, proj) ==
  LET projectName == JsString(JsOr(proj.name, JStr(<<>>)))
      baseURLFromProject == proj.baseURL
  IN JsOr(penv.API_BASE_URL,
       JsOr(penv.CONTROL_TOWER_BASE_URL,
         JsOr(IF includes(projectName, S_api) THEN baseURLFromProject ELSE Undefined,
           JsOr(IF ~IsFalsy(penv.CONTROL_TOWER_PORT)
                THEN JStr(S_localhostPrefix \o JsString(penv.CONTROL_TOWER_PORT))
                ELSE Undefined,
             JStr(S_localhost4000)))))

\* ------------------------------------------------------------------------
\* config/tags: resolveExtraTags
\* ------------------------------------------------------------------------
\* \s
WhitespaceChars == {" ", "\t", "\n"}

\* \w
WordChars == Range(DigitChars) \cup Range(UpperChars) \cup Range(LowerChars) \cup {"_"}

\* String.prototype.trimStart and trimEnd
RECURSIVE trimStart(_)
trimStart(s) == IF Len(s) > 0 /\ s[1] \in WhitespaceChars THEN trimStart(Tail(s)) ELSE s

RECURSIVE trimEnd(_)
trimEnd(s) ==
  IF Len(s) > 0 /\ s[Len(s)] \in WhitespaceChars THEN trimEnd(SubSeq(s, 1, Len(s) - 1)) ELSE s

\* String.prototype.trim
trim(s) == trimEnd(trimStart(s))

\* /\bword\b/.test(s) for a word made of word characters
HasWord(s, word) ==
  \E p \in 1..Len(s) :
    /\ MatchesAt(s, word, p)
    /\ p = 1 \/ s[p - 1] \notin WordChars
    /\ p + Len(word) > Len(s) \/ s[p + Len(word)] \notin WordChars

\* /\s|@|\bnot\b|\band\b|\bor\b/.test(s)
looksLikeExpression(s) ==
  \/ \E p \in 1..Len(s) : s[p] \in WhitespaceChars \/ s[p] = "@"
  \/ HasWord(s, S_not)
  \/ HasWord(s, S_and)
  \/ HasWord(s, S_or)

\* position of the first sep at or after i, Len(s) + 1 when there is none
RECURSIVE IndexOfFrom(_, _, _)
IndexOfFrom(s, sep, i) ==
  IF i > Len(s) THEN Len(s) + 1
  ELSE IF s[i] = sep THEN i
  ELSE IndexOfFrom(s, sep, i + 1)

\* String.prototype.split(sep) for a one-character separator
RECURSIVE split(_, _)
split(s, sep) ==
  LET j == IndexOfFrom(s, sep, 1) IN
  IF j > Len(s) THEN <<s>>
  ELSE <<SubSeq(s, 1, j - 1)>> \o split(SubSeq(s, j + 1, Len(s)), sep)

IsNonEmpty(s) == s # <<>>

\* (t) => (t.startsWith('@') ? t : `@${t}`)
WithAt(t) == IF startsWith(t, <<"@">>) THEN t ELSE <<"@">> \o t

\* resolveExtraTags(raw)
resolveExtraTags(raw) ==
  IF raw.k \in {"undefined", "null"} THEN Undefined
  ELSE LET tagFilterRaw == trim(raw.s) IN
       IF tagFilterRaw = <<>> THEN Undefined
       ELSE IF looksLikeExpression(tagFilterRaw) THEN JStr(tagFilterRaw)
       ELSE LET pieces == split(tagFilterRaw, ",")
                trimmed == [i \in 1..Len(pieces) |-> trim(pieces[i])]
                kept == SelectSeq(trimmed, IsNonEmpty)
                parts == [i \in 1..Len(kept) |-> WithAt(kept[i])]
            IN IF Len(parts) = 0 THEN Undefined ELSE JStr(Join(parts, S_orSep))

\* ------------------------------------------------------------------------
\* Number(string)
\* ------------------------------------------------------------------------
DigitValue(c) == CHOOSE d \in 0..9 : DigitChars[d + 1] = c

HexDigitValue(c) ==
  IF c \in Range(DigitChars) THEN DigitValue(c)
  ELSE 9 + (CHOOSE d \in 1..6 : <<"a","b","c","d","e","f">>[d] = toLowerChar(c))

RECURSIVE DigitsToNat(_)
DigitsToNat(ds) ==
  IF Len(ds) = 0 THEN 0
  ELSE 10 * DigitsToNat(SubSeq(ds, 1, Len(ds) - 1)) + DigitValue(ds[Len(ds)])

RECURSIVE HexDigitsToNat(_)
HexDigitsToNat(ds) ==
  IF Len(ds) = 0 THEN 0
  ELSE 16 * HexDigitsToNat(SubSeq(ds, 1, Len(ds) - 1)) + HexDigitValue(ds[Len(ds)])

RECURSIVE Pow10(_)
Pow10(n) == IF n <= 0 THEN 1 ELSE 10 * Pow10(n - 1)

\* the number m * 10^e
RECURSIVE Scaled(_, _)
Scaled(m, e) ==
  IF m = 0 THEN JNum(0)
  ELSE IF e >= 0 THEN JNum(m * Pow10(e))
  ELSE IF m % 10 = 0 THEN Scaled(m \div 10, e + 1)
  ELSE JDec(m, e)

\* first position at or after j that does not hold a decimal digit
RECURSIVE DigitsEnd(_, _)
DigitsEnd(s, j) == IF j <= Len(s) /\ s[j] \in Range(DigitChars) THEN DigitsEnd(s, j + 1) ELSE j

\* the value of an unsigned decimal literal: digits, fraction and exponent
\* part; NaN when the text is not one
DecimalLiteral(body, negative) ==
  LET intEnd == DigitsEnd(body, 1)
      intDigits == SubSeq(body, 1, intEnd - 1)
      hasPoint == intEnd <= Len(body) /\ body[intEnd] = "."
      fracEnd == IF hasPoint THEN DigitsEnd(body, intEnd + 1) ELSE intEnd
      fracDigits == IF hasPoint THEN SubSeq(body, intEnd + 1, fracEnd - 1) ELSE <<>>
      hasExp == fracEnd <= Len(body) /\ body[fracEnd] \in {"e", "E"}
      expSigned == hasExp /\ fracEnd + 1 <= Len(body) /\ body[fracEnd + 1] \in {"+", "-"}
      expStart == IF expSigned THEN fracEnd + 2 ELSE fracEnd + 1
      expEnd == IF hasExp THEN DigitsEnd(body, expStart) ELSE fracEnd
      expDigits == IF hasExp THEN SubSeq(body, expStart, expEnd - 1) ELSE <<>>
      exponent == IF expSigned /\ body[fracEnd + 1] = "-"
                  THEN 0 - DigitsToNat(expDigits) ELSE DigitsToNat(expDigits)
      mantissa == DigitsToNat(intDigits \o fracDigits)
  IN IF /\ Len(intDigits) + Len(fracDigits) > 0
        /\ hasExp => Len(expDigits) > 0
        /\ expEnd = Len(body) + 1
     THEN Scaled(IF negative THEN 0 - mantissa ELSE mantissa, exponent - Len(fracDigits))
     ELSE JNaN

\* Number(s) for a string s: blanks around the text are ignored, the empty text
\* is 0, text that is no numeric literal is NaN
Number(s) ==
  LET t == trim(s) IN
  IF t = <<>> THEN JNum(0)
  ELSE IF (startsWith(t, S_0x) \/ startsWith(t, S_0X)) /\ Len(t) > 2
            /\ \A i \in 3..Len(t) : IsHexChar(t[i])
       THEN JNum(HexDigitsToNat(SubSeq(t, 3, Len(t))))
  ELSE LET signed == t[1] \in {"+", "-"}
           negative == t[1] = "-"
           body == IF signed THEN Tail(t) ELSE t
       IN IF body = S_Infinity THEN JInfinity(negative)
          ELSE DecimalLiteral(body, negative)

\* ------------------------------------------------------------------------
\* utils.ts: tokenize, selectPath, parseExpected
\* ------------------------------------------------------------------------
\* the tokens of the rest of a path, or the way tokenize ends instead
Cons(token, rest) ==
  IF rest.k = "tokens" THEN [k |-> "tokens", tokens |-> <<token>> \o rest.tokens] ELSE rest

\* tokenize(path) from position i (1-based): the tokens, the error thrown, or
\* "diverges" when the loop stops advancing (i = j with an empty key pushed
\* on every round)
RECURSIVE tokenizeFrom(_, _)
tokenizeFrom(path, i) ==
  IF i > Len(path) THEN [k |-> "tokens", tokens |-> <<>>]
  ELSE IF path[i] = "." THEN tokenizeFrom(path, i + 1)
  ELSE IF path[i] = "["
       THEN LET j == IndexOfFrom(path, "]", i + 1) IN
            IF j > Len(path)
            THEN [k |-> "throws", error |-> [msg |-> "Invalid path", path |-> path]]
            ELSE LET idxStr == SubSeq(path, i + 1, j - 1)
                     idx == Number(idxStr)
                 IN IF ~IsInteger(idx)
                    THEN [k |-> "throws",
                          error |-> [msg |-> "Invalid array index", idxStr |-> idxStr, path |-> path]]
                    ELSE Cons([t |-> "index", i |-> idx.n], tokenizeFrom(path, j + 1))
  ELSE LET j == NameEnd(path, i) IN
       IF j = i THEN [k |-> "diverges"]
       ELSE Cons([t |-> "key", key |-> SubSeq(path, i, j - 1)], tokenizeFrom(path, j))

tokenize(path) == tokenizeFrom(path, 1)

\* typeof value
TypeOf(v) == IF v.k \in {"null", "array", "object"} THEN "object" ELSE v.k

\* cur === null ? 'null' : Array.isArray(cur) ? 'array' : typeof cur
GotType(cur) == IF cur.k = "null" THEN "null" ELSE IF cur.k = "array" THEN "array" ELSE TypeOf(cur)

\* cur[token] for an array cur and an integer token
ElementAt(cur, index) ==
  IF index >= 0 /\ index < Len(cur.a) THEN cur.a[index + 1] ELSE Undefined

\* cur[token] for an object cur (not an array) and a string token: an own
\* property, or else what Object.prototype provides
PropertyOf(cur, key) ==
  IF \E i \in 1..Len(cur.o) : cur.o[i][1] = key THEN GetProp(cur, key)
  ELSE IF key \in DOMAIN ObjectPrototype THEN ObjectPrototype[key]
  ELSE Undefined

\* the loop of selectPath over the tokens from position n
RECURSIVE selectFrom(_, _, _, _)
selectFrom(cur, tokens, n, path) ==
  IF n > Len(tokens) THEN [k |-> "returns", value |-> cur]
  ELSE IF tokens[n].t = "index"
       THEN IF cur.k # "array"
            THEN [k |-> "throws",
                  error |-> [msg |-> "expected array", got |-> GotType(cur), path |-> path]]
            ELSE selectFrom(ElementAt(cur, tokens[n].i), tokens, n + 1, path)
       ELSE IF cur.k \in {"undefined", "null"} \/ TypeOf(cur) # "object" \/ cur.k = "array"
            THEN [k |-> "throws",
                  error |-> [msg |-> "expected object", got |-> GotType(cur), path |-> path]]
            ELSE selectFrom(PropertyOf(cur, tokens[n].key), tokens, n + 1, path)

\* selectPath(root, path): the value returned, the error thrown, or "diverges"
selectPath(root, path) ==
  IF path = <<>> THEN [k |-> "returns", value |-> root]
  ELSE LET tokens == tokenize(path) IN
       IF tokens.k # "tokens" THEN tokens
       ELSE selectFrom(root, tokens.tokens, 1, path)

\* parseExpected(input, world), vmap being world.vars
parseExpected(input, vmap) ==
  LET s == interpolate(input, vmap) IN
  IF s = S_null THEN JNull
  ELSE IF s = S_true THEN JBool(TRUE)
  ELSE IF s = S_false THEN JBool(FALSE)
  ELSE IF ~IsNaN(Number(s)) /\ trim(s) # <<>> THEN Number(s)
  ELSE JStr(s)

\* ------------------------------------------------------------------------
\* adapters/auth/universal-auth.adapter.ts
\* ------------------------------------------------------------------------
\* typeof token === 'string' && token
IsNonEmptyString(v) == v.k = "string" /\ v.s # <<>>

\* process.env[name]
EnvGet(penv, name) == IF name \in DOMAIN penv THEN penv[name] ELSE Undefined

\* the Authorization header replaces all the headers
apiSetBearerOnly(w, token) ==
  [w EXCEPT !.headers = [h \in {H_Authorization} |-> S_Bearer \o token]]

\* apiSetBearer(world, token)
apiSetBearer(w, token) ==
  [w EXCEPT !.headers = Spread(w.headers, [h \in {H_Authorization} |-> S_Bearer \o token])]

\* the username apiLoginAsAdmin and apiLoginAsUser log in with
LoginUsername(who, penv) ==
  IF who = "admin"
  THEN JsOr(EnvGet(penv, "DEFAULT_ADMIN_USERNAME"),
            JsOr(EnvGet(penv, "DEFAULT_ADMIN_EMAIL"), JStr(S_adminDefault))).s
  ELSE JsOr(EnvGet(penv, "DEFAULT_USER_USERNAME"),
            JsOr(EnvGet(penv, "NON_ADMIN_USERNAME"), JStr(S_userDefault))).s

\* apiLogin(world, username, password) once api.sendForm has settled: whether
\* it throws, with what error, and the world it leaves
apiLogin(w, username, result) ==
  IF result.k = "throws"
  THEN [threw |-> TRUE, error |-> [msg |-> "transport"], world |-> w]
  ELSE LET seen == Spread(w, [lastStatus |-> result.status, lastText |-> result.text,
                              lastJson |-> result.json, lastHeaders |-> result.headers])
           json == JsOr(result.json, JObj(<<>>))
           token == GetProp(json, K_access_token)
       IN IF ~IsNonEmptyString(token)
          THEN [threw |-> TRUE,
                error |-> [msg |-> "API login failed", username |-> username,
                           status |-> result.status, text |-> result.text],
                world |-> seen]
          ELSE [threw |-> FALSE, error |-> [msg |-> "none"], world |-> apiSetBearer(seen, token.s)]

\* ------------------------------------------------------------------------
\* adapters/tui/tui-tester.adapter.ts: lifecycle of a TuiTesterAdapter
\* ------------------------------------------------------------------------
\* new TuiTesterAdapter(config): tester null, running false, module not loaded;
\* created counts the TmuxTester instances the adapter has constructed and
\* stopped the calls of the backend's stop
NewTuiTesterAdapter ==
  [k |-> "adapter", tester |-> "null", running |-> FALSE, module |-> "null",
   created |-> 0, stopped |-> 0]

\* isRunning()
isRunning(a) == a.running /\ a.tester # "null"

\* start(): load is how import('tui-tester') settles when the module is not
\* loaded yet, backendStart how tester.start() settles
TuiStart(a, load, backendStart) ==
  IF a.running THEN [threw |-> FALSE, error |-> "none", adapter |-> a]
  ELSE IF a.module = "null" /\ load = "throws"
       THEN [threw |-> TRUE, error |-> "tui-tester is not installed", adapter |-> a]
       ELSE LET made == [a EXCEPT !.module = "loaded", !.tester = "instance", !.created = @ + 1] IN
            IF backendStart = "throws"
            THEN [threw |-> TRUE, error |-> "backend start", adapter |-> made]
            ELSE [threw |-> FALSE, error |-> "none", adapter |-> [made EXCEPT !.running = TRUE]]

\* the adapter keeps its state when the backend's stop throws
TuiStopKeepsOnThrow(a, backendStop) ==
  IF ~a.running \/ a.tester = "null" THEN [threw |-> FALSE, error |-> "none", adapter |-> a]
  ELSE IF backendStop = "throws"
       THEN [threw |-> TRUE, error |-> "backend stop", adapter |-> [a EXCEPT !.stopped = @ + 1]]
       ELSE [threw |-> FALSE, error |-> "none",
             adapter |-> [a EXCEPT !.running = FALSE, !.tester = "null", !.stopped = @ + 1]]

\* stop(): backendStop is how tester.stop() settles; the finally block resets
\* running and tester either way
TuiStop(a, backendStop) ==
  IF ~a.running \/ a.tester = "null" THEN [threw |-> FALSE, error |-> "none", adapter |-> a]
  ELSE [threw |-> backendStop = "throws",
        error |-> IF backendStop = "throws" THEN "backend stop" ELSE "none",
        adapter |-> [a EXCEPT !.running = FALSE, !.tester = "null", !.stopped = @ + 1]]

\* restart(): await this.stop(); await this.start()
TuiRestart(a, backendStop, load, backendStart) ==
  LET s == TuiStop(a, backendStop) IN
  IF s.threw THEN s ELSE TuiStart(s.adapter, load, backendStart)

\* getTester() at the head of every input, mouse and screen operation
getTester(a) ==
  IF a.tester = "null"
  THEN [threw |-> TRUE, error |-> "TUI tester not started. Call start() first."]
  ELSE [threw |-> FALSE, error |-> "none"]

\* typeText(text): getTester(), then the backend's typeText, which settles as
\* backendCall says
typeText(a, backendCall) ==
  LET t == getTester(a) IN
  IF t.threw THEN [threw |-> TRUE, error |-> t.error, reachedBackend |-> FALSE]
  ELSE [threw |-> backendCall = "throws",
        error |-> IF backendCall = "throws" THEN "backend call" ELSE "none",
        reachedBackend |-> TRUE]

\* ------------------------------------------------------------------------
\* fixtures.ts: admin token cache and the world fixture
\* ------------------------------------------------------------------------
VARIABLES
  env,               \* process.env of the worker: CLEANUP_RULES, CLEANUP_ALLOW_ALL
  options,           \* createBddTest options: the input createCleanup passes to the adapter
  config,            \* the loaded Playwright configuration: the active project and the extra tags
  apiRequest,        \* the apiRequest fixture (the transport) of the current test
  cachedAdminToken,  \* module-level cache: Undefined or JStr(token)
  testNo,            \* number of tests this worker has started
  pc,                \* position of the current test in its lifecycle
  world,             \* the World of the current test
  cleanupAdapter,    \* the cleanup fixture (a DefaultCleanupAdapter) of the current test
  steps,             \* number of steps the current test body has run
  lastStep,          \* the step the test body ran last, with the queue before it
  outcome,           \* how the test body ended: "passed" or "failed"
  items,             \* [...w.cleanup].reverse() of the running teardown
  idx,               \* position of the teardown loop in items
  adminHeaders,      \* the loop's adminHeaders of the current iteration
  reqLog,            \* requests issued on apiRequest by the current test's teardown
  authExpired,       \* the last cleanup response was 401/403 and no login was issued since
  lastFetch,         \* how the last cleanup request of the current teardown settled, and what was logged
  teardownRuns,      \* times the current test's world teardown has started
  teardownThrew,     \* an exception escaped the current test's world teardown
  fixtures,          \* the fixtures of the current test in set-up order, and those torn down
  inFlight,          \* positions in reqLog of the teardown requests that have not settled
  tui                \* the tui fixture of the current test: the TuiTesterAdapter and its backend

vars == <<env, options, config, apiRequest, cachedAdminToken, testNo, pc, world, cleanupAdapter, steps,
          lastStep, outcome, items, idx, adminHeaders, reqLog, authExpired, lastFetch, teardownRuns,
          teardownThrew, fixtures, inFlight, tui>>

\* initWorld(); skipCleanup FALSE stands for the unset optional flag
initWorld == [vars |-> EmptyMap, headers |-> EmptyMap, cleanup |-> <<>>, skipCleanup |-> FALSE]

NoStep == [op |-> "none"]

\* no cleanup request of the current teardown has settled
NoFetch == [result |-> [k |-> "none"], warned |-> FALSE]

\* createTui?.() of the tui fixture: the test does not use the fixture, no
\* factory is configured, or the factory makes an adapter
TuiFixture(opts) ==
  IF \A i \in DOMAIN opts.order : opts.order[i] # "tui" THEN [k |-> "unused"]
  ELSE IF opts.createTui = "none" THEN [k |-> "undefined"]
  ELSE NewTuiTesterAdapter

\* no fixture of the current test is set up or torn down yet
NoFixtures == [order |-> <<>>, torn |-> {}, tuiStopCalls |-> 0, tuiWarned |-> FALSE, disposals |-> 0]

\* no fixture declares a dependency
DependsOnNothing(f) == {}

\* the fixtures a fixture function destructures: world takes apiRequest
\* (fixtures.ts:96), apiRequest takes the built-in playwright (126), tui none (165)
DependsOn(f) == IF f = "world" THEN {"apiRequest"} ELSE {}

\* the orders in which the runner can set up the fixtures a test uses: in the
\* order of their use, a fixture after the fixtures it depends on
SetupOrders(used) ==
  {o \in [1..Cardinality(used) -> used] :
     /\ \A i, j \in DOMAIN o : i # j => o[i] # o[j]
     /\ \A i, j \in DOMAIN o : o[j] \in DependsOn(o[i]) => j < i}

\* the fixture has been torn down; the world fixture is when its teardown has
\* returned or thrown
Torn(f) == IF f = "world" THEN pc = "done" ELSE f \in fixtures.torn

\* the runner tears fixtures down in the reverse of their set-up order, once
\* the test body has finished
MayTearDown(f) ==
  /\ pc \in {"teardown", "loop", "login", "fetch", "done"}
  /\ \E i \in DOMAIN fixtures.order :
       /\ fixtures.order[i] = f
       /\ ~Torn(f)
       /\ \A j \in DOMAIN fixtures.order : j > i => Torn(fixtures.order[j])

\* every fixture of the previous test has been torn down
AllTorn == \A i \in DOMAIN fixtures.order : Torn(fixtures.order[i])

\* a request is issued as entry n of reqLog
Issue(flight, n) == flight \cup {n}

\* no awaited request ever counts as settled
SettleNothing(flight, n) == flight

\* the awaited request n has settled (resolved or rejected)
Settle(flight, n) == flight \ {n}

\* the fixture resumes only after a passing body
UseResumesOnPassOnly(bodyOutcome) == bodyOutcome = "passed"

\* `await use(w)` returns to the fixture when the test body has finished,
\* whether it passed or failed
UseResumes(bodyOutcome) == bodyOutcome \in {"passed", "failed"}

\* the skipCleanup return is missing
SkipsTeardownOnEmptyOnly(w) == Len(w.cleanup) = 0

\* fixtures.ts:100-101: the two early returns of the teardown
SkipsTeardown(w) == w.skipCleanup \/ Len(w.cleanup) = 0

\* { Authorization: `Bearer ${token}` }
BearerHeaders(token) == [h \in {"Authorization"} |-> S_Bearer \o token]

\* getAdminHeaders after the login request has settled: whether it throws,
\* the cache it leaves and the headers it returns
LoginOutcome(result, cache) ==
  IF result.k = "throws"
  THEN [threw |-> TRUE, cache |-> cache, headers |-> EmptyMap]
  ELSE IF ~result.ok
       THEN [threw |-> FALSE, cache |-> Undefined, headers |-> EmptyMap]
       ELSE IF result.json.k = "invalid"
            THEN [threw |-> TRUE, cache |-> cache, headers |-> EmptyMap]
            ELSE LET token == GetProp(result.json, K_access_token) IN
                 IF IsNonEmptyString(token)
                 THEN [threw |-> FALSE, cache |-> token, headers |-> BearerHeaders(token.s)]
                 ELSE [threw |-> FALSE, cache |-> Undefined, headers |-> EmptyMap]

\* item.headers || {}
ItemHeaders(item) == IF "headers" \in DOMAIN item THEN item.headers ELSE EmptyMap

\* on a key collision the admin header is the one sent
CleanupRequestAdminWins(item, admin) ==
  [kind |-> "cleanup", method |-> item.method, path |-> item.path,
   admin |-> admin, headers |-> Spread(ItemHeaders(item), admin)]

\* the apiRequest.fetch call of one loop iteration
CleanupRequest(item, admin) ==
  [kind |-> "cleanup", method |-> item.method, path |-> item.path,
   admin |-> admin, headers |-> Spread(admin, ItemHeaders(item))]

LoginRequest == [kind |-> "login"]

\* 403 is not treated as an expired token
CleanupResponseOutcome401Only(result, cache) ==
  IF result.k = "throws"
  THEN [threw |-> FALSE, cache |-> cache, warned |-> TRUE]
  ELSE IF result.status = 401
       THEN [threw |-> FALSE, cache |-> Undefined, warned |-> TRUE]
       ELSE [threw |-> FALSE, cache |-> cache,
             warned |-> result.status >= 400 /\ result.status # 404]

\* a 404 is reported like any other status of 400 or more
CleanupResponseOutcomeWarnsOn404(result, cache) ==
  IF result.k = "throws"
  THEN [threw |-> FALSE, cache |-> cache, warned |-> TRUE]
  ELSE IF result.status = 401 \/ result.status = 403
       THEN [threw |-> FALSE, cache |-> Undefined, warned |-> TRUE]
       ELSE [threw |-> FALSE, cache |-> cache, warned |-> result.status >= 400]

\* fixtures.ts:106-122: the try/catch around the fetch, after the request has
\* settled: whether the iteration throws, the cache it leaves and whether it
\* wrote a console.warn
CleanupResponseOutcome(result, cache) ==
  IF result.k = "throws"
  THEN [threw |-> FALSE, cache |-> cache, warned |-> TRUE]
  ELSE IF result.status = 401 \/ result.status = 403
       THEN [threw |-> FALSE, cache |-> Undefined, warned |-> TRUE]
       ELSE [threw |-> FALSE, cache |-> cache,
             warned |-> result.status >= 400 /\ result.status # 404]

\* the cache is never consulted
HasCachedTokenNever(cache) == FALSE

\* if (cachedAdminToken): the cache holds a usable token
HasCachedToken(cache) == ~IsFalsy(cache)

\* an item answered with 401 or 403 is sent again
NextIndexRetries(i, result) ==
  IF result.k = "response" /\ result.status \in {401, 403} THEN i ELSE i + 1

\* fixtures.ts:103, 115: the position of the for...of loop after the request
\* of position i has settled with result; `continue` moves on like any other
\* end of the loop body
NextIndex(i, result) == i + 1

\* control after the loop has advanced to position i of its
LoopNext(i, its) == IF i > Len(its) THEN "done" ELSE "loop"

\* ------------------------------------------------------------------------
\* Inputs
\* ------------------------------------------------------------------------
Tokens == {Tok1, Tok2}

TokenBody(t) == JObj(<< <<K_access_token, JStr(t)>> >>)

LoginResults ==
  {[k |-> "throws"], [k |-> "response", ok |-> FALSE, json |-> JObj(<<>>)]}
    \cup {[k |-> "response", ok |-> TRUE, json |-> j] :
            j \in {[k |-> "invalid"], JObj(<<>>), JNull,
                   JObj(<< <<K_access_token, JStr(<<>>)>> >>),
                   JObj(<< <<K_access_token, JNum(5)>> >>)}
                  \cup {TokenBody(t) : t \in Tokens}}

FetchResults ==
  {[k |-> "throws"]} \cup {[k |-> "response", status |-> s] : s \in {200, 401, 403, 404, 500}}

NoEnv ==
  [CLEANUP_RULES |-> [k |-> "unset"], CLEANUP_ALLOW_ALL |-> <<>>,
   API_BASE_URL |-> Undefined, CONTROL_TOWER_BASE_URL |-> Undefined, CONTROL_TOWER_PORT |-> Undefined]

\* the project of the example configuration that runs the API features
ApiProject == [name |-> JStr(S_api), baseURL |-> Undefined]

\* ------------------------------------------------------------------------
\* Test lifecycle
\* ------------------------------------------------------------------------
\* the runner starts the next test of the worker: fixtures are set up
StartTest ==
  /\ pc \in {"idle", "done"}
  /\ AllTorn
  /\ testNo < MaxTests
  /\ testNo' = testNo + 1
  /\ pc' = "body"
  /\ world' = options.worldFactory
  /\ cleanupAdapter' = DefaultCleanupAdapter(options.cleanupInput, env)
  /\ fixtures' = [NoFixtures EXCEPT !.order = options.order]
  /\ inFlight' = {}
  /\ tui' = TuiFixture(options)
  /\ steps' = 0
  /\ lastStep' = NoStep
  /\ outcome' = "none"
  /\ items' = <<>>
  /\ idx' = 0
  /\ adminHeaders' = EmptyMap
  /\ reqLog' = <<>>
  /\ teardownRuns' = 0
  /\ teardownThrew' = FALSE
  /\ apiRequest' = [k |-> "context", baseURL |-> baseURL(env, config.project)]
  /\ lastFetch' = NoFetch
  /\ UNCHANGED <<env, options, config, cachedAdminToken, authExpired>>

TeardownVars ==
  <<outcome, items, idx, adminHeaders, reqLog, authExpired, lastFetch, teardownRuns, teardownThrew>>

\* one more step of the body
BodyStep ==
  /\ pc = "body"
  /\ steps < MaxSteps
  /\ steps' = steps + 1
  /\ UNCHANGED <<env, options, config, fixtures, inFlight, tui, apiRequest, cachedAdminToken, testNo, pc, cleanupAdapter>>
  /\ UNCHANGED TeardownVars

\* Given 'I set variable {string} to {string}'
SetVariable(name, value) ==
  /\ BodyStep
  /\ world' = [world EXCEPT !.vars = SetKey(world.vars, name, value)]
  /\ lastStep' = [op |-> "setVariable", name |-> name, value |-> value, before |-> world.cleanup]

\* Given 'I disable cleanup'
DisableCleanup ==
  /\ BodyStep
  /\ world' = [world EXCEPT !.skipCleanup = TRUE]
  /\ lastStep' = [op |-> "disableCleanup", before |-> world.cleanup]

\* Given 'I register cleanup DELETE|POST|PATCH|PUT {string}'
RegisterCleanupStep(method, pathTemplate) ==
  /\ BodyStep
  /\ world' = [world EXCEPT !.cleanup =
                 registerCleanup(world.cleanup,
                   [method |-> method, path |-> interpolate(pathTemplate, world.vars)])]
  /\ lastStep' = [op |-> "registerCleanupStep", method |-> method,
                  pathTemplate |-> pathTemplate, before |-> world.cleanup]

\* registerCleanup(world, item) called from step code
RegisterCleanupCall(item) ==
  /\ BodyStep
  /\ world' = [world EXCEPT !.cleanup = registerCleanup(world.cleanup, item)]
  /\ lastStep' = [op |-> "registerCleanup", item |-> item, before |-> world.cleanup]

\* cleanup.registerFromVar(world, varName, id, meta) called from step code
RegisterFromVarCall(varName, id, meta) ==
  /\ BodyStep
  /\ world' = [world EXCEPT !.cleanup =
                 registerFromVar(cleanupAdapter, world.cleanup, varName, id, meta)]
  /\ lastStep' = [op |-> "registerFromVar", varName |-> varName, id |-> id, meta |-> meta,
                  before |-> world.cleanup]

\* the test body finishes
EndBody(o) ==
  /\ pc = "body"
  /\ pc' = "teardown"
  /\ outcome' = o
  /\ steps' = 0
  /\ lastStep' = NoStep
  /\ UNCHANGED <<env, options, config, fixtures, inFlight, tui, apiRequest, cachedAdminToken, testNo, world, cleanupAdapter,
                 items, idx, adminHeaders, reqLog, authExpired, lastFetch, teardownRuns,
                 teardownThrew>>

\* fixtures.ts:98-103: the world fixture resumes after `await use(w)`
WorldTeardown ==
  /\ pc = "teardown"
  /\ MayTearDown("world")
  /\ IF ~UseResumes(outcome)
     THEN /\ pc' = "done"
          /\ UNCHANGED <<items, idx, teardownRuns>>
     ELSE /\ teardownRuns' = teardownRuns + 1
          /\ IF SkipsTeardown(world)
             THEN /\ pc' = "done"
                  /\ UNCHANGED <<items, idx>>
             ELSE /\ items' = Reverse(world.cleanup)
                  /\ idx' = 1
                  /\ pc' = LoopNext(1, Reverse(world.cleanup))
  /\ UNCHANGED <<env, options, config, fixtures, inFlight, tui, apiRequest, cachedAdminToken, testNo, world, cleanupAdapter,
                 steps, lastStep, outcome, adminHeaders, reqLog, authExpired, lastFetch,
                 teardownThrew>>

\* fixtures.ts:104 and 16-27: getAdminHeaders is called for items[idx]; with a
\* cached token the cleanup request goes out at once, otherwise the login does
GetAdminHeaders ==
  /\ pc = "loop"
  /\ IF HasCachedToken(cachedAdminToken)
     THEN /\ adminHeaders' = BearerHeaders(cachedAdminToken.s)
          /\ reqLog' = Append(reqLog, CleanupRequest(items[idx], BearerHeaders(cachedAdminToken.s)))
          /\ inFlight' = Issue(inFlight, Len(reqLog) + 1)
          /\ pc' = "fetch"
          /\ UNCHANGED authExpired
     ELSE /\ reqLog' = Append(reqLog, LoginRequest)
          /\ inFlight' = Issue(inFlight, Len(reqLog) + 1)
          /\ pc' = "login"
          /\ authExpired' = FALSE
          /\ UNCHANGED adminHeaders
  /\ UNCHANGED <<env, options, config, fixtures, tui, apiRequest, cachedAdminToken, testNo, world, cleanupAdapter,
                 steps, lastStep, outcome, items, idx, lastFetch, teardownRuns, teardownThrew>>

\* fixtures.ts:29-45 and 105-110: the login request settles
LoginResponse(result) ==
  /\ pc = "login"
  /\ LET o == LoginOutcome(result, cachedAdminToken) IN
       /\ cachedAdminToken' = o.cache
       /\ IF o.threw
          THEN /\ teardownThrew' = TRUE
               /\ pc' = "done"
               /\ inFlight' = Settle(inFlight, Len(reqLog))
               /\ UNCHANGED <<adminHeaders, reqLog>>
          ELSE /\ adminHeaders' = o.headers
               /\ reqLog' = Append(reqLog, CleanupRequest(items[idx], o.headers))
               /\ inFlight' = Issue(Settle(inFlight, Len(reqLog)), Len(reqLog) + 1)
               /\ pc' = "fetch"
               /\ UNCHANGED teardownThrew
  /\ UNCHANGED <<env, options, config, fixtures, tui, apiRequest, testNo, world, cleanupAdapter, steps, lastStep,
                 outcome, items, idx, authExpired, lastFetch, teardownRuns>>

\* fixtures.ts:111-123: the cleanup request settles
FetchResponse(result) ==
  /\ pc = "fetch"
  /\ authExpired' = IF result.k = "response" /\ result.status \in {401, 403} THEN TRUE ELSE authExpired
  /\ LET o == CleanupResponseOutcome(result, cachedAdminToken) IN
       /\ cachedAdminToken' = o.cache
       /\ lastFetch' = [result |-> result, warned |-> o.warned]
       /\ inFlight' = Settle(inFlight, Len(reqLog))
       /\ IF o.threw
          THEN /\ teardownThrew' = TRUE
               /\ pc' = "done"
               /\ UNCHANGED idx
          ELSE /\ idx' = NextIndex(idx, result)
               /\ pc' = LoopNext(NextIndex(idx, result), items)
               /\ UNCHANGED teardownThrew
  /\ UNCHANGED <<env, options, config, fixtures, tui, apiRequest, testNo, world, cleanupAdapter, steps, lastStep,
                 outcome, items, adminHeaders, reqLog, teardownRuns>>

\* ------------------------------------------------------------------------
\* Teardown of the other fixtures, and the TUI lifecycle steps
\* ------------------------------------------------------------------------
\* fixtures.ts:138-142: `await use(ctx)` has returned or thrown and the
\* finally block disposes the request context
Dispose ==
  /\ MayTearDown("apiRequest")
  /\ apiRequest' = [apiRequest EXCEPT !.k = "disposed"]
  /\ fixtures' = [fixtures EXCEPT !.torn = @ \cup {"apiRequest"}, !.disposals = @ + 1]
  /\ UNCHANGED <<env, options, config, cachedAdminToken, testNo, pc, world, cleanupAdapter, steps,
                 lastStep, outcome, items, idx, adminHeaders, reqLog, authExpired, lastFetch,
                 teardownRuns, teardownThrew, inFlight, tui>>

\* fixtures.ts:170-177: the tui fixture resumes after `await use(tuiAdapter)`;
\* backendStop is how the backend's stop settles if it is called
TuiTeardown(backendStop) ==
  /\ MayTearDown("tui")
  /\ IF tui.k = "adapter" /\ isRunning(tui)
     THEN LET r == TuiStop(tui, backendStop) IN
          /\ tui' = r.adapter
          /\ fixtures' = [fixtures EXCEPT !.torn = @ \cup {"tui"}, !.tuiStopCalls = @ + 1,
                                          !.tuiWarned = r.threw]
     ELSE /\ UNCHANGED tui
          /\ fixtures' = [fixtures EXCEPT !.torn = @ \cup {"tui"}]
  /\ UNCHANGED <<env, options, config, apiRequest, cachedAdminToken, testNo, pc, world,
                 cleanupAdapter, steps, lastStep, outcome, items, idx, adminHeaders, reqLog,
                 authExpired, lastFetch, teardownRuns, teardownThrew, inFlight>>

\* a step of the body that returns or throws (the body fails and the fixtures
\* are torn down), leaving the world as it is
TuiStepEnding(threw) ==
  /\ pc = "body"
  /\ steps < MaxSteps
  /\ steps' = steps + 1
  /\ pc' = IF threw THEN "teardown" ELSE "body"
  /\ outcome' = IF threw THEN "failed" ELSE outcome
  /\ UNCHANGED <<env, options, config, fixtures, inFlight, apiRequest, cachedAdminToken, testNo,
                 world, cleanupAdapter, items, idx, adminHeaders, reqLog, authExpired, lastFetch,
                 teardownRuns, teardownThrew>>

\* a TUI step when no adapter was made: `tui.start()` on undefined throws
TuiStepWithoutAdapter(op) ==
  /\ tui.k = "undefined"
  /\ TuiStepEnding(TRUE)
  /\ UNCHANGED tui
  /\ lastStep' = [op |-> op, threw |-> TRUE, error |-> "tui is undefined", tuiBefore |-> tui,
                  before |-> world.cleanup]

\* await tui.start() called from step code
TuiStartCall(load, backendStart) ==
  /\ tui.k = "adapter"
  /\ LET r == TuiStart(tui, load, backendStart) IN
       /\ TuiStepEnding(r.threw)
       /\ tui' = r.adapter
       /\ lastStep' = [op |-> "tuiStart", threw |-> r.threw, error |-> r.error,
                       tuiBefore |-> tui, before |-> world.cleanup]

\* When 'I stop the TUI application'
TuiStopCall(backendStop) ==
  /\ tui.k = "adapter"
  /\ LET r == TuiStop(tui, backendStop) IN
       /\ TuiStepEnding(r.threw)
       /\ tui' = r.adapter
       /\ lastStep' = [op |-> "tuiStop", threw |-> r.threw, error |-> r.error,
                       tuiBefore |-> tui, before |-> world.cleanup]

\* await tui.restart() called from step code
TuiRestartCall(backendStop, load, backendStart) ==
  /\ tui.k = "adapter"
  /\ LET r == TuiRestart(tui, backendStop, load, backendStart) IN
       /\ TuiStepEnding(r.threw)
       /\ tui' = r.adapter
       /\ lastStep' = [op |-> "tuiRestart", threw |-> r.threw, error |-> r.error,
                       tuiBefore |-> tui, before |-> world.cleanup]

\* await tui.typeText(text) called from step code
TuiTypeTextCall(backendCall) ==
  /\ tui.k = "adapter"
  /\ LET r == typeText(tui, backendCall) IN
       /\ TuiStepEnding(r.threw)
       /\ UNCHANGED tui
       /\ lastStep' = [op |-> "tuiTypeText", threw |-> r.threw, error |-> r.error,
                       reachedBackend |-> r.reachedBackend, tuiBefore |-> tui,
                       before |-> world.cleanup]

\* ------------------------------------------------------------------------
\* Specification of one worker: tests run one after the other
\* ------------------------------------------------------------------------
InitWith(configs) ==
  /\ \E c \in configs :
       /\ env = c.env
       /\ \E order \in SetupOrders(IF "uses" \in DOMAIN c THEN c.uses ELSE {"apiRequest", "world"}) :
            options = [cleanupInput |-> c.input,
                       createTui |-> IF "createTui" \in DOMAIN c THEN c.createTui ELSE "none",
                       worldFactory |-> IF "world" \in DOMAIN c THEN c.world ELSE initWorld,
                       order |-> order]
       /\ config = [project |-> c.project, extraTagsRaw |-> c.tags,
                    extraTags |-> resolveExtraTags(c.tags)]
  /\ apiRequest = [k |-> "none"]
  /\ cachedAdminToken = Undefined
  /\ testNo = 0
  /\ pc = "idle"
  /\ world = initWorld
  /\ cleanupAdapter = DefaultCleanupAdapter(options.cleanupInput, env)
  /\ steps = 0
  /\ lastStep = NoStep
  /\ outcome = "none"
  /\ items = <<>>
  /\ idx = 0
  /\ adminHeaders = EmptyMap
  /\ reqLog = <<>>
  /\ authExpired = FALSE
  /\ lastFetch = NoFetch
  /\ teardownRuns = 0
  /\ teardownThrew = FALSE
  /\ fixtures = NoFixtures
  /\ inFlight = {}
  /\ tui = [k |-> "unused"]

\* the headers of the documented example: { 'X-Force': 'true' }
ForceHeaders == [h \in {"X-Force"} |-> H_true]

Init == InitWith({[env |-> NoEnv, input |-> EmptyMap, project |-> ApiProject, tags |-> Undefined]})

Teardown ==
  \/ WorldTeardown
  \/ GetAdminHeaders
  \/ \E result \in LoginResults : LoginResponse(result)
  \/ \E result \in FetchResults : FetchResponse(result)

Next ==
  \/ StartTest
  \/ SetVariable(S_id, S_1)
  \/ DisableCleanup
  \/ \E method \in {M_DELETE, M_POST} : RegisterCleanupStep(method, T_u_id)
  \/ RegisterCleanupCall([path |-> T_t])
  \/ RegisterCleanupCall([path |-> T_t, headers |-> ForceHeaders])
  \/ RegisterFromVarCall(V_test_user_id, JStr(UuidA), Undefined)
  \/ \E o \in {"passed", "failed"} : EndBody(o)
  \/ Teardown
  \/ Dispose

Spec == Init /\ [][Next]_vars

\* ------------------------------------------------------------------------
\* Specification of the registration operations of one test body
\* ------------------------------------------------------------------------
CustomEnvRules ==
  JArr(<< JObj(<< <<K_varMatch, JStr(M_TEAM)>>, <<K_method, JStr(M_post)>>,
                  <<K_path, JStr(P_custom_teams)>> >>),
          JNull,
          JObj(<< <<K_varMatch, JStr(V_user_id)>> >>) >>)

AllowAllEnv == [NoEnv EXCEPT !.CLEANUP_RULES = [k |-> "invalid"], !.CLEANUP_ALLOW_ALL = E_TRUE]

CustomRulesEnv == [NoEnv EXCEPT !.CLEANUP_RULES = CustomEnvRules, !.CLEANUP_ALLOW_ALL = E_truex]

CustomInput ==
  [rules |-> << [varMatch |-> M_userPrefixRe, method |-> M_PUT, path |-> P_x_id_id] >>,
   allowHeuristic |-> FALSE]

RegConfigs ==
  {[env |-> NoEnv, input |-> EmptyMap, project |-> ApiProject, tags |-> Undefined],
   [env |-> AllowAllEnv, input |-> EmptyMap, project |-> ApiProject, tags |-> Undefined],
   [env |-> CustomRulesEnv, input |-> EmptyMap, project |-> ApiProject, tags |-> Undefined],
   [env |-> AllowAllEnv, input |-> CustomInput, project |-> ApiProject, tags |-> Undefined],
   [env |-> CustomRulesEnv, input |-> [rules |-> <<>>], project |-> ApiProject, tags |-> Undefined]}

RegVarNames ==
  {V_user_id, V_test_user_id, V_a__team, V_run1a2buser, V_run1user, V_USER_TEST, V_widget_test}

RegIds ==
  {JStr(UuidA), JStr(UuidUpper), JStr(UuidTooLong), JStr(UuidBadChar), JStr(UuidNoHyphens),
   JStr(S_42), JNum(42), JNum(0), JStr(<<>>), JNull, Undefined, JBool(TRUE),
   JArr(<<JStr(UuidA)>>)}

RegMetas ==
  {Undefined, JStr(S_prod), JStr(S_test), JObj(<< <<S_name, JStr(S_x__y)>> >>),
   JObj(<< <<S_id, JStr(UuidA)>> >>)}

\* the calls of registerFromVar that are tried: every id under a testy name,
\* every name with a UUID id, and every meta under a name that is not testy
RegCalls ==
  {<<V_test_user_id, id, Undefined>> : id \in RegIds}
    \cup {<<n, JStr(UuidA), Undefined>> : n \in RegVarNames}
    \cup {<<V_user_id, JStr(UuidA), m>> : m \in RegMetas}

InitReg == InitWith(RegConfigs)

NextReg ==
  \/ StartTest
  \/ SetVariable(S_id, S_1)
  \/ \E method \in Methods : RegisterCleanupStep(method, T_u_id)
  \/ \E method \in {M_DELETE, M_PUT} : RegisterCleanupCall([method |-> method, path |-> T_u_1])
  \/ RegisterCleanupCall([path |-> T_u_1])
  \/ \E c \in RegCalls : RegisterFromVarCall(c[1], c[2], c[3])

SpecReg == InitReg /\ [][NextReg]_vars

\* ------------------------------------------------------------------------
\* Specification of the configuration a worker starts its tests with
\* ------------------------------------------------------------------------
UrlValues(url) == {Undefined, JStr(<<>>), JStr(url)}

UrlEnvs ==
  {[NoEnv EXCEPT !.API_BASE_URL = a, !.CONTROL_TOWER_BASE_URL = c, !.CONTROL_TOWER_PORT = p] :
     a \in UrlValues(U_api), c \in UrlValues(U_ct), p \in UrlValues(E_5000)}

Projects ==
  {[name |-> JStr(n), baseURL |-> b] : n \in {S_api, N_ui, N_my_api_tests, N_API}, b \in UrlValues(U_proj)}

\* raw values handed to resolveExtraTags
TagInputs ==
  {Undefined, JNull} \cup
  {JStr(t) : t \in {<<>>, G_blank, G_commas, G_smoke, G_at_smoke, G_smoke_padded, G_smoke_critical,
                    G_trailing, G_at2, G_spaced2, G_at3_spaced, G_at_smoke_or_at_critical,
                    G_not_at_slow}}

ConfigConfigs ==
  {[env |-> e, input |-> EmptyMap, project |-> p, tags |-> Undefined] : e \in UrlEnvs, p \in Projects}
    \cup {[env |-> NoEnv, input |-> EmptyMap, project |-> ApiProject, tags |-> t] : t \in TagInputs}

InitConfig == InitWith(ConfigConfigs)

NextConfig ==
  \/ StartTest
  \/ \E o \in {"passed", "failed"} : EndBody(o)
  \/ WorldTeardown
  \/ Dispose

SpecConfig == InitConfig /\ [][NextConfig]_vars

\* ------------------------------------------------------------------------
\* Specification of the utility and authentication steps of one test body
\* ------------------------------------------------------------------------
\* a step of the body that returns, throws (the body fails and the fixtures
\* are torn down) or never returns (the worker makes no further progress)
StepEnding(ending) ==
  /\ pc = "body"
  /\ steps < MaxSteps
  /\ steps' = steps + 1
  /\ pc' = IF ending = "returns" THEN "body" ELSE IF ending = "throws" THEN "teardown" ELSE "hung"
  /\ outcome' = IF ending = "throws" THEN "failed" ELSE outcome
  /\ UNCHANGED <<env, options, config, fixtures, inFlight, tui, apiRequest, cachedAdminToken, testNo, cleanupAdapter,
                 items, idx, adminHeaders, reqLog, authExpired, lastFetch, teardownRuns,
                 teardownThrew>>

\* Given 'I set header {string} to {string}'
SetHeader(header, value) ==
  /\ BodyStep
  /\ world' = [world EXCEPT !.headers =
                 Spread(world.headers, [h \in {header} |-> value])]
  /\ lastStep' = [op |-> "setHeader", header |-> header, value |-> value, before |-> world.cleanup]

\* interpolate(template, world.vars) called from step code
InterpolateCall(template) ==
  /\ StepEnding("returns")
  /\ UNCHANGED world
  /\ lastStep' = [op |-> "interpolate", template |-> template, vars |-> world.vars,
                  result |-> interpolate(template, world.vars), before |-> world.cleanup]

\* selectPath(root, path) called from step code
SelectPathCall(root, path) ==
  LET result == selectPath(root, path) IN
  /\ StepEnding(result.k)
  /\ UNCHANGED world
  /\ lastStep' = [op |-> "selectPath", root |-> root, path |-> path, result |-> result,
                  before |-> world.cleanup]

\* parseExpected(input, world) called from step code
ParseExpectedCall(input) ==
  /\ StepEnding("returns")
  /\ UNCHANGED world
  /\ lastStep' = [op |-> "parseExpected", input |-> input, vars |-> world.vars,
                  result |-> parseExpected(input, world.vars), before |-> world.cleanup]

\* Given 'I am authenticated as an admin via API' / '... as a user via API',
\* result being what api.sendForm settles with
ApiLoginStep(who, result) ==
  LET r == apiLogin(world, LoginUsername(who, env), result) IN
  /\ StepEnding(IF r.threw THEN "throws" ELSE "returns")
  /\ world' = r.world
  /\ lastStep' = [op |-> "apiLogin", who |-> who, result |-> result, threw |-> r.threw,
                  error |-> r.error, headersBefore |-> world.headers, before |-> world.cleanup]

\* world.lastJson, undefined until a response has been stored
LastJson(w) == IF "lastJson" \in DOMAIN w THEN w.lastJson ELSE Undefined

\* expect(actual).toEqual(expected) for the values a step compares: the same
\* type and the same value
toEqual(actual, expected) == actual.k = expected.k /\ actual = expected

\* When 'I GET {string}': send() stores the result that api.sendJson settled with
GetStep(pathTemplate, result) ==
  /\ StepEnding("returns")
  /\ world' = Spread(world, [lastStatus |-> result.status, lastText |-> result.text,
                              lastJson |-> result.json, lastHeaders |-> result.headers])
  /\ lastStep' = [op |-> "get", path |-> interpolate(pathTemplate, world.vars), result |-> result,
                  before |-> world.cleanup]

\* Then 'I store the value at {string} as {string}'
StoreValueAt(path, varName) ==
  LET val == selectPath(LastJson(world), path) IN
  /\ StepEnding(val.k)
  /\ world' = IF val.k = "returns"
               THEN [world EXCEPT
                       !.vars = SetKey(world.vars, varName, JsString(val.value)),
                       !.cleanup = registerFromVar(cleanupAdapter, world.cleanup, varName,
                                                   val.value, LastJson(world))]
               ELSE world
  /\ lastStep' = [op |-> "storeValueAt", path |-> path, varName |-> varName, val |-> val,
                  before |-> world.cleanup]

\* Then 'the value at {string} should equal {string}'
ValueShouldEqual(path, expectedRaw) ==
  LET actual == selectPath(LastJson(world), path)
      expected == parseExpected(expectedRaw, world.vars)
      passed == actual.k = "returns" /\ toEqual(actual.value, expected)
  IN /\ StepEnding(IF actual.k = "diverges" THEN "diverges"
                    ELSE IF passed THEN "returns" ELSE "throws")
     /\ UNCHANGED world
     /\ lastStep' = [op |-> "valueShouldEqual", path |-> path, expectedRaw |-> expectedRaw,
                     vars |-> world.vars, actual |-> actual, expected |-> expected,
                     passed |-> passed, before |-> world.cleanup]

\* a response body of scalars: numbers, a boolean, null and strings, some of
\* which read like a number, a boolean or null
ScalarsBody ==
  JObj(<< <<K_num, JNum(7)>>, <<K_dec, JDec(15, -1)>>, <<K_yes, JBool(TRUE)>>, <<K_nil, JNull>>,
          <<K_s, JStr(S_abc)>>, <<K_s42, JStr(S_42)>>, <<K_st, JStr(S_true)>>,
          <<K_sn, JStr(S_null)>>, <<K_se, JStr(<<>>)>> >>)

ScalarPaths == {K_num, K_dec, K_yes, K_nil, K_s, K_s42, K_st, K_sn, K_se}

ScalarsResult ==
  [k |-> "response", status |-> 200, text |-> S_abc, json |-> ScalarsBody, headers |-> EmptyMap]

\* a parsed response body for selectPath to walk
Data ==
  JObj(<< <<S_id, JNum(7)>>,
          <<K_a, JObj(<< <<K_b, JStr(S_42)>> >>)>>,
          <<V_n, JNull>>,
          <<K_items, JArr(<< JObj(<< <<S_id, JNum(1)>> >>), JStr(S_1) >>)>> >>)

Roots == {Data, JObj(<<>>), JArr(<<JNum(1)>>), JStr(S_abc), JNull, Undefined}

Paths ==
  {<<>>, S_id, P_a, P_a_b, P_items0id, P_items1, P_items2, P_itemsNeg, P_itemsX, P_items_length,
   P_items00, P_missing, P_missing_x, P_missing0, P_id_x, P_n0, P_n_x, P_idx0, K_constructor,
   P_a_constructor, P_a_space_b, P_dollar, P_stray, P_itemsOpen}

\* the calls of selectPath that are tried: every path on the example body, and
\* the short paths on every other root
SelectCalls ==
  {<<Data, path>> : path \in Paths}
    \cup {<<root, path>> : root \in Roots, path \in {<<>>, S_id, P_idx0, K_constructor}}

Templates ==
  {<<>>, T_u_id, T_x, T_unknown, T_empty, T_blank, T_open, T_twice, T_constructor, T_x_id,
   T_nested, T_plain, T_proto}

ExpectedInputs ==
  {<<>>, X_blank, S_null, S_true, S_false, X_TRUE, S_42, X_42p, X_neg7, X_1_5, X_1e3, X_0x1F,
   S_Infinity, X_negInf, S_NaN, X_12px, S_abc, T_n, T_x, T_unknown}

SendFormResults ==
  {[k |-> "throws"]} \cup
  {[k |-> "response", status |-> 200, text |-> S_abc, json |-> TokenBody(t), headers |-> EmptyMap] :
     t \in Tokens} \cup
  {[k |-> "response", status |-> s, text |-> S_unauthorized, json |-> j, headers |-> EmptyMap] :
     s \in {200, 401},
     j \in {Undefined, JNull, JObj(<<>>), JStr(Tok1), JObj(<< <<K_access_token, JStr(<<>>)>> >>),
            JObj(<< <<K_access_token, JNum(5)>> >>), JObj(<< <<K_access_token, JNull>> >>),
            JObj(<< <<S_detail, JStr(S_unauthorized)>> >>)}}

StepsEnv == Spread(NoEnv, [DEFAULT_ADMIN_EMAIL |-> JStr(S_abc)])

StepsConfigs ==
  {[env |-> e, input |-> EmptyMap, project |-> ApiProject, tags |-> Undefined] : e \in {NoEnv, StepsEnv}}

InitSteps == InitWith(StepsConfigs)

NextSteps ==
  \/ StartTest
  \/ \E nv \in {<<S_id, S_1>>, <<V_x, T_u_id>>, <<V_n, S_42>>} : SetVariable(nv[1], nv[2])
  \/ \E hv \in {<<H_XTrace, S_abc>>, <<H_Authorization, S_old>>} : SetHeader(hv[1], hv[2])
  \/ \E template \in Templates : InterpolateCall(template)
  \/ \E c \in SelectCalls : SelectPathCall(c[1], c[2])
  \/ \E input \in ExpectedInputs : ParseExpectedCall(input)
  \/ \E who \in {"admin", "user"}, result \in SendFormResults : ApiLoginStep(who, result)
  \/ \E o \in {"passed", "failed"} : EndBody(o)
  \/ WorldTeardown
  \/ Dispose

SpecSteps == InitSteps /\ [][NextSteps]_vars

\* ------------------------------------------------------------------------
\* Specification of the steps that store and compare values of a response
\* ------------------------------------------------------------------------
NextAssert ==
  \/ StartTest
  \/ SetVariable(S_id, S_1)
  \/ GetStep(P_scalars, ScalarsResult)
  \/ \E path \in ScalarPaths \cup {P_missing, P_a_b} : StoreValueAt(path, V_v)
  \/ \E path \in ScalarPaths, expectedRaw \in {T_v, S_abc} : ValueShouldEqual(path, expectedRaw)
  \/ \E o \in {"passed", "failed"} : EndBody(o)
  \/ WorldTeardown
  \/ Dispose

SpecAssert == InitSteps /\ [][NextAssert]_vars

\* ------------------------------------------------------------------------
\* Specification of the fixtures of one test: world, apiRequest and tui
\* ------------------------------------------------------------------------
\* headers an item brings itself, one of them colliding with the admin headers
OwnHeaders == [h \in {"Authorization", "X-Force"} |-> IF h = "Authorization" THEN S_old ELSE H_true]

\* a worldFactory whose world starts with a queued item that has headers
SeededWorld ==
  [initWorld EXCEPT !.cleanup = << [method |-> M_DELETE, path |-> T_u_1, headers |-> OwnHeaders] >>]

Settlements == {"resolves", "throws"}

FixtureConfigs ==
  {[env |-> NoEnv, input |-> EmptyMap, project |-> ApiProject, tags |-> Undefined,
    uses |-> {"apiRequest", "world", "tui"}, createTui |-> f] : f \in {"factory", "none"}}
    \cup {[env |-> NoEnv, input |-> EmptyMap, project |-> ApiProject, tags |-> Undefined,
           world |-> SeededWorld]}

FixtureLoginResults ==
  {[k |-> "throws"], [k |-> "response", ok |-> FALSE, json |-> JObj(<<>>)],
   [k |-> "response", ok |-> TRUE, json |-> TokenBody(Tok1)]}

FixtureFetchResults ==
  {[k |-> "throws"]} \cup {[k |-> "response", status |-> s] : s \in {200, 401}}

InitFixtures == InitWith(FixtureConfigs)

NextFixtures ==
  \/ StartTest
  \/ RegisterCleanupCall([path |-> T_t])
  \/ \E op \in {"tuiStart", "tuiStop"} : TuiStepWithoutAdapter(op)
  \/ \E load \in Settlements, backendStart \in Settlements : TuiStartCall(load, backendStart)
  \/ \E backendStop \in Settlements : TuiStopCall(backendStop)
  \/ \E backendStop \in Settlements, load \in Settlements, backendStart \in Settlements :
       TuiRestartCall(backendStop, load, backendStart)
  \/ \E backendCall \in Settlements : TuiTypeTextCall(backendCall)
  \/ \E o \in {"passed", "failed"} : EndBody(o)
  \/ WorldTeardown
  \/ GetAdminHeaders
  \/ \E result \in FixtureLoginResults : LoginResponse(result)
  \/ \E result \in FixtureFetchResults : FetchResponse(result)
  \/ \E backendStop \in Settlements : TuiTeardown(backendStop)
  \/ Dispose

SpecFixtures == InitFixtures /\ [][NextFixtures]_vars

\* ------------------------------------------------------------------------
\* Properties
\* ------------------------------------------------------------------------
IsCleanupRequest(r) == r.kind = "cleanup"

\* the cleanup requests the current teardown has issued, in order of issue
CleanupRequests == SelectSeq(reqLog, IsCleanupRequest)

SameItem(a, b) == a.method = b.method /\ a.path = b.path

\* C1: the cleanup requests of a teardown are issued in the reverse of the
\* registration order: the k-th request issued is for the k-th item from the
\* end of world.cleanup, so an item queued later is always requested earlier.
C1_LifoOrder ==
  LET n == Len(world.cleanup) IN
  /\ Len(CleanupRequests) <= n
  /\ \A i \in 1..Len(CleanupRequests) : SameItem(CleanupRequests[i], world.cleanup[n + 1 - i])

C1_Witness ==
  /\ pc = "done"
  /\ ~world.skipCleanup
  /\ Len(world.cleanup) >= 2
  /\ Len(CleanupRequests) = Len(world.cleanup)

\* C2: whatever the outcome of each item's request, a teardown that is not
\* skipped ends with every queued item requested and without an exception
\* escaping it.
C2_EveryItemRequested ==
  (pc = "done" /\ teardownRuns = 1 /\ ~world.skipCleanup)
    => (Len(CleanupRequests) = Len(world.cleanup) /\ ~teardownThrew)

\* C3: when the login made for a cleanup item settles, in whatever way, the
\* teardown goes on to send that item's request and nothing is thrown; when the
\* login left no token cached, the request carries no admin Authorization.
C3_LoginFailureNotFatal ==
  [][pc = "login" =>
       /\ pc' = "fetch"
       /\ ~teardownThrew'
       /\ Len(reqLog') = Len(reqLog) + 1
       /\ IsCleanupRequest(reqLog'[Len(reqLog')])
       /\ (cachedAdminToken' = Undefined => DOMAIN reqLog'[Len(reqLog')].admin = {})]_vars

SkipOrEmpty == world.skipCleanup \/ Len(world.cleanup) = 0

\* C4: when skipCleanup is true at the end of the body, or the queue is empty,
\* the teardown returns at once: it issues no login and no cleanup request and
\* leaves the admin token cache as it was.
C4_SkipMeansNoNetwork ==
  /\ []((pc = "done" /\ SkipOrEmpty) => reqLog = <<>>)
  /\ [][(pc = "teardown" /\ SkipOrEmpty) =>
          (pc' = "done" /\ reqLog' = <<>> /\ cachedAdminToken' = cachedAdminToken)]_vars

C4_Witness ==
  /\ pc = "done"
  /\ teardownRuns = 1
  /\ world.skipCleanup
  /\ Len(world.cleanup) >= 1
  /\ cachedAdminToken # Undefined
  /\ reqLog = <<>>

\* C5: a 401 or 403 answer to a cleanup request leaves the cache empty; the
\* next request the worker's teardowns issue is then a login, and the request
\* that follows a login is the cleanup request of the item being processed, so
\* exactly one login precedes that item's own request.
C5_RefreshAfterAuthFailure ==
  /\ [](authExpired => cachedAdminToken = Undefined)
  /\ [][(authExpired /\ Len(reqLog') > Len(reqLog)) => reqLog' = Append(reqLog, LoginRequest)]_vars
  /\ [][(pc = "login" /\ Len(reqLog') > Len(reqLog)) =>
          /\ Len(reqLog') = Len(reqLog) + 1
          /\ IsCleanupRequest(reqLog'[Len(reqLog')])
          /\ SameItem(reqLog'[Len(reqLog')], items[idx])]_vars

C5_Witness ==
  /\ Len(reqLog) = 3
  /\ IsCleanupRequest(reqLog[1])
  /\ DOMAIN reqLog[1].admin # {}
  /\ reqLog[2] = LoginRequest
  /\ IsCleanupRequest(reqLog[3])
  /\ SameItem(reqLog[3], world.cleanup[Len(world.cleanup) - 1])

\* C6: a login is issued only while the cache is empty; a cached token stays
\* the same until a cleanup request is answered with 401 or 403, the only event
\* that empties a populated cache; and while a token is cached every request
\* issued is a cleanup request bearing that token, with no login.
C6_TokenCacheReuse ==
  /\ [][(Len(reqLog') > Len(reqLog) /\ reqLog'[Len(reqLog')] = LoginRequest) =>
          cachedAdminToken = Undefined]_vars
  /\ [][cachedAdminToken # Undefined =>
          \/ cachedAdminToken' = cachedAdminToken
          \/ (cachedAdminToken' = Undefined /\ pc = "fetch" /\ authExpired')]_vars
  /\ [][(cachedAdminToken # Undefined /\ Len(reqLog') > Len(reqLog)) =>
          /\ IsCleanupRequest(reqLog'[Len(reqLog')])
          /\ DOMAIN reqLog'[Len(reqLog')].admin = {"Authorization"}
          /\ reqLog'[Len(reqLog')].admin["Authorization"] = S_Bearer \o cachedAdminToken.s]_vars

C6_Witness ==
  /\ testNo = 2
  /\ pc = "done"
  /\ Len(reqLog) = 2
  /\ \A i \in 1..2 : IsCleanupRequest(reqLog[i]) /\ reqLog[i].admin = reqLog[1].admin
  /\ DOMAIN reqLog[1].admin = {"Authorization"}

NoDuplicateItems(queue) ==
  \A i, j \in 1..Len(queue) : i # j => ~SameItem(queue[i], queue[j])

IsRegistration(step) == step.op \in {"registerCleanupStep", "registerCleanup", "registerFromVar"}

\* the {method, path} a registerCleanup call or a register step was given
RegisteredPair(step) ==
  IF step.op = "registerCleanupStep"
  THEN [method |-> step.method, path |-> interpolate(step.pathTemplate, world.vars)]
  ELSE [method |-> IF "method" \in DOMAIN step.item THEN step.item.method ELSE M_DELETE,
        path |-> step.item.path]

Holds(queue, pair) == \E i \in 1..Len(queue) : SameItem(queue[i], pair)

\* C7: world.cleanup never holds two items with the same method and path; a
\* registration either leaves the queue as it was or appends one item, and it
\* leaves the queue as it was when its {method, path} is already queued.
C7_NoDuplicateCleanupItems ==
  /\ NoDuplicateItems(world.cleanup)
  /\ IsRegistration(lastStep) =>
       \/ world.cleanup = lastStep.before
       \/ /\ Len(world.cleanup) = Len(lastStep.before) + 1
          /\ SubSeq(world.cleanup, 1, Len(lastStep.before)) = lastStep.before
  /\ (lastStep.op \in {"registerCleanupStep", "registerCleanup"}
        /\ Holds(lastStep.before, RegisteredPair(lastStep)))
       => world.cleanup = lastStep.before

C7_Witness ==
  /\ lastStep.op = "registerCleanupStep"
  /\ Len(lastStep.before) >= 2
  /\ SameItem(lastStep.before[1], RegisteredPair(lastStep))
  /\ world.cleanup = lastStep.before

\* C8: the world teardown of a test has not started while the body runs and
\* has started exactly once from the moment the fixture resumes until the test
\* is over, whether the body passed or failed.
C8_TeardownExactlyOnce ==
  /\ pc \in {"body", "teardown"} => teardownRuns = 0
  /\ pc \in {"loop", "login", "fetch", "done"} => teardownRuns = 1

C8_Witness ==
  /\ pc = "done"
  /\ outcome = "failed"
  /\ teardownRuns = 1
  /\ Len(CleanupRequests) >= 1

HexDigitSet ==
  {"0","1","2","3","4","5","6","7","8","9","a","b","c","d","e","f","A","B","C","D","E","F"}

\* 8-4-4-4-12 hexadecimal groups separated by hyphens
UuidShaped(s) ==
  /\ Len(s) = 8 + 1 + 4 + 1 + 4 + 1 + 4 + 1 + 12
  /\ \A i \in 1..Len(s) : (i \in {9, 14, 19, 24} /\ s[i] = "-") \/ (i \notin {9, 14, 19, 24} /\ s[i] \in HexDigitSet)

ContainsTestyText(s) ==
  \E p \in 1..Len(s) :
    \/ (p + 1 <= Len(s) /\ s[p] = "_" /\ s[p + 1] = "_")
    \/ (p + 3 <= Len(s) /\ s[p] \in {"r", "R"} /\ s[p + 1] \in {"u", "U"} /\ s[p + 2] \in {"n", "N"}
          /\ s[p + 3] \in HexDigitSet)
    \/ (p + 3 <= Len(s) /\ s[p] \in {"t", "T"} /\ s[p + 1] \in {"e", "E"} /\ s[p + 2] \in {"s", "S"}
          /\ s[p + 3] \in {"t", "T"})

\* the text of a meta value: the string itself, the JSON text of another value,
\* nothing when there is no meta
MetaText(meta) ==
  IF meta.k = "string" THEN meta.s
  ELSE IF meta.k \in {"undefined", "null"} THEN <<>>
  ELSE JSONstringify(meta)

PastIdAndGate ==
  /\ lastStep.op = "registerFromVar"
  /\ ~IsFalsy(lastStep.id)
  /\ isUuidLike(JsString(lastStep.id))
  /\ PassesGate(cleanupAdapter, lastStep.varName, lastStep.meta)

\* positions of the configured rules whose varMatch matches the lower-cased name
MatchingRules(name) ==
  {i \in 1..Len(cleanupAdapter.rules) : matchVar(cleanupAdapter.rules[i], toLowerCase(name))}

\* the queue after an item has been offered to it
Offered(queue, item) == IF Holds(queue, item) THEN queue ELSE Append(queue, item)

\* C11: a registerFromVar call that passes the id and gate checks registers the
\* item of the first matching rule in configured order: that rule's path with
\* every {id} replaced by String(id), under the rule's method or DELETE; when
\* no rule matches, the queue is left as it was.
C11_FirstMatchingRuleWins ==
  PastIdAndGate =>
    LET matching == MatchingRules(lastStep.varName) IN
    IF matching = {} THEN world.cleanup = lastStep.before
    ELSE LET first == CHOOSE i \in matching : \A j \in matching : i <= j
             rule == cleanupAdapter.rules[first]
         IN world.cleanup =
              Offered(lastStep.before,
                      [method |-> IF "method" \in DOMAIN rule THEN rule.method ELSE M_DELETE,
                       path |-> ReplaceIdToken(rule.path, JsString(lastStep.id))])

\* a name matched by an environment rule and, further down, by a default rule
C11_Witness ==
  /\ PastIdAndGate
  /\ lastStep.varName = V_a__team
  /\ Cardinality(MatchingRules(lastStep.varName)) >= 2
  /\ lastStep.before = <<>>
  /\ world.cleanup = << [method |-> M_POST, path |-> ReplaceIdToken(P_custom_teams, UuidA)] >>

\* no rule matches: nothing is registered
C11_WitnessNoRule ==
  /\ PastIdAndGate
  /\ MatchingRules(lastStep.varName) = {}

\* the constructor was given a non-empty rules array
SuppliesRules(input) == "rules" \in DOMAIN input /\ input.rules # <<>>

\* the rules parsed from CLEANUP_RULES
EnvRules == loadRulesFromEnv(env.CLEANUP_RULES)

\* C12: the adapter's rules come from exactly one source: the
\* constructor rules if supplied, otherwise the CLEANUP_RULES rules if there are
\* any, otherwise the built-in defaults, which are not consulted when a source
\* of higher precedence supplies rules.
C12_OneRuleSource ==
  cleanupAdapter.rules =
    IF SuppliesRules(options.cleanupInput) THEN options.cleanupInput.rules
    ELSE IF EnvRules # <<>> THEN EnvRules
    ELSE defaultRules

\* what the constructor builds: a non-empty constructor rules array replaces every other
\* source; otherwise the adapter's rules are the CLEANUP_RULES rules followed by
\* the built-in defaults, so the environment rules win by coming first and the
\* defaults are still consulted for names no environment rule matches.
C12_EnvRulesThenDefaults ==
  cleanupAdapter.rules =
    IF SuppliesRules(options.cleanupInput) THEN options.cleanupInput.rules
    ELSE EnvRules \o defaultRules

\* CLEANUP_RULES supplies a rule, and a name only a default rule matches is
\* registered under the default rule's path
C12_Witness ==
  /\ EnvRules # <<>>
  /\ ~SuppliesRules(options.cleanupInput)
  /\ PastIdAndGate
  /\ lastStep.varName = V_test_user_id
  /\ \A i \in 1..Len(EnvRules) : ~matchVar(EnvRules[i], toLowerCase(lastStep.varName))
  /\ lastStep.before = <<>>
  /\ Len(world.cleanup) = 1
  /\ world.cleanup[1].method = M_DELETE

\* an environment variable or option that is set to a non-empty string
IsSet(v) == v.k = "string" /\ v.s # <<>>

IsTagToken(t) ==
  LET name == IF Len(t) > 0 /\ t[1] = "@" THEN Tail(t) ELSE t IN
  /\ name # <<>>
  /\ \A i \in 1..Len(name) : name[i] \in WordChars \cup {"-"}

\* the tokens of a comma-separated list, blanks around them removed
ListTokens(s) == [i \in 1..Len(split(s, ",")) |-> trim(split(s, ",")[i])]

\* a comma-separated list of tag names
IsTagList(s) == \A i \in 1..Len(ListTokens(s)) : IsTagToken(ListTokens(s)[i])

\* the token with exactly one leading '@'
OneAt(t) == IF t[1] = "@" THEN t ELSE <<"@">> \o t

\* C19: resolveExtraTags gives undefined for undefined, null, empty and blank
\* input, and turns every comma-separated list of tag names, with or without
\* '@' on the tokens and with or without blanks after the commas, into the
\* trimmed tokens, each with one leading '@', joined by ' or '.
C19_TagListBecomesOrExpression ==
  LET raw == config.extraTagsRaw IN
  IF raw.k \in {"undefined", "null"} \/ trim(raw.s) = <<>>
  THEN config.extraTags = Undefined
  ELSE IsTagList(raw.s) =>
         config.extraTags =
           JStr(Join([i \in 1..Len(ListTokens(raw.s)) |-> OneAt(ListTokens(raw.s)[i])], S_orSep))

\* the lists the function does convert: no '@', no blank, no word not/and/or
C19_PlainListConverted ==
  /\ config.extraTagsRaw = JStr(G_smoke_critical)
  /\ config.extraTags = JStr(G_at_smoke_or_at_critical)

\* C18: a registerCleanup call that is given headers, for a {method, path} not
\* yet queued, queues an item that carries those headers, so that the teardown
\* sends them with the item's request.
C18_RegisteredHeadersKept ==
  (lastStep.op = "registerCleanup"
     /\ "headers" \in DOMAIN lastStep.item
     /\ ~Holds(lastStep.before, RegisteredPair(lastStep)))
    => LET queued == world.cleanup[Len(world.cleanup)] IN
       /\ Len(world.cleanup) = Len(lastStep.before) + 1
       /\ SameItem(queued, RegisteredPair(lastStep))
       /\ "headers" \in DOMAIN queued
       /\ queued.headers = lastStep.item.headers

\* the last cleanup request was answered with this status
AnsweredWith(fetch, status) == fetch.result.k = "response" /\ fetch.result.status = status

\* C20: a cleanup request answered with 404 writes no warning and one answered
\* with 500 writes one; neither clears the cached admin token; and after a 404
\* the following item, with a token cached, is requested at once under that
\* token, without a login.
C20_NotFoundIsSuccess ==
  /\ [](AnsweredWith(lastFetch, 404) => ~lastFetch.warned)
  /\ [](AnsweredWith(lastFetch, 500) => lastFetch.warned)
  /\ [][(pc = "fetch" /\ (AnsweredWith(lastFetch', 404) \/ AnsweredWith(lastFetch', 500)))
          => cachedAdminToken' = cachedAdminToken]_vars
  /\ [][(pc = "loop" /\ AnsweredWith(lastFetch, 404) /\ cachedAdminToken.k = "string")
          => /\ Len(reqLog') = Len(reqLog) + 1
             /\ IsCleanupRequest(reqLog'[Len(reqLog')])
             /\ reqLog'[Len(reqLog')].admin = BearerHeaders(cachedAdminToken.s)
             /\ cachedAdminToken' = cachedAdminToken]_vars

\* one login, a 404 for the first item, and the second item requested under
\* the same token
C20_Witness ==
  /\ pc = "fetch"
  /\ idx = 2
  /\ AnsweredWith(lastFetch, 404)
  /\ ~lastFetch.warned
  /\ cachedAdminToken.k = "string"
  /\ Len(reqLog) = 3
  /\ reqLog[1] = LoginRequest
  /\ IsCleanupRequest(reqLog[2])
  /\ IsCleanupRequest(reqLog[3])
  /\ reqLog[3].admin = reqLog[2].admin
  /\ reqLog[3].admin = BearerHeaders(cachedAdminToken.s)

\* the substitution the sentence describes: one pass from position i in which a
\* {name} token is replaced exactly when name is a key of the mapping
RECURSIVE KeySubstitutionFrom(_, _, _)
KeySubstitutionFrom(t, vmap, i) ==
  IF i > Len(t) THEN <<>>
  ELSE LET j == NameEnd(t, i + 1) IN
       IF t[i] = "{" /\ j > i + 1 /\ j <= Len(t) /\ t[j] = "}"
       THEN (IF SubSeq(t, i + 1, j - 1) \in DOMAIN vmap
             THEN vmap[SubSeq(t, i + 1, j - 1)] ELSE SubSeq(t, i, j))
              \o KeySubstitutionFrom(t, vmap, j + 1)
       ELSE <<t[i]>> \o KeySubstitutionFrom(t, vmap, i + 1)

\* C14: interpolate(template, vars) is a single-pass substitution that never
\* throws: each {name} token is replaced by vars[name] when name is a key of
\* vars and is left verbatim when it is not, and inserted text is not re-scanned.
C14_SinglePassKeySubstitution ==
  lastStep.op = "interpolate" =>
    lastStep.result = KeySubstitutionFrom(lastStep.template, lastStep.vars, 1)

\* the part of C14 that the code keeps: tokens naming a key are replaced once,
\* and tokens naming nothing that a plain object has or inherits stay verbatim
C14_ReplacedOnce ==
  /\ lastStep.op = "interpolate"
  /\ lastStep.template = T_x_id
  /\ DOMAIN lastStep.vars = {S_id, V_x}
  /\ lastStep.result = T_u_id \o S_1

\* the walk the sentence describes over the tokens from position n: a key that
\* the object does not have yields undefined
RECURSIVE OwnWalk(_, _, _, _)
OwnWalk(cur, tokens, n, path) ==
  IF n > Len(tokens) THEN [k |-> "returns", value |-> cur]
  ELSE IF tokens[n].t = "index"
       THEN IF cur.k # "array"
            THEN [k |-> "throws",
                  error |-> [msg |-> "expected array", got |-> GotType(cur), path |-> path]]
            ELSE OwnWalk(ElementAt(cur, tokens[n].i), tokens, n + 1, path)
       ELSE IF cur.k # "object"
            THEN [k |-> "throws",
                  error |-> [msg |-> "expected object", got |-> GotType(cur), path |-> path]]
            ELSE OwnWalk(GetProp(cur, tokens[n].key), tokens, n + 1, path)

\* C15: selectPath(root, path) returns root for an empty path and otherwise the
\* value reached by applying the key and 0-based index accesses of the path in
\* order, a missing key yielding undefined; an index applied to a non-array, or
\* a key applied to null, a non-object or an array, throws an error naming the
\* path and the actual shape. (Paths that tokenize into keys and indexes.)
C15_SelectPathWalksOwnKeys ==
  lastStep.op = "selectPath" =>
    IF lastStep.path = <<>> THEN lastStep.result = [k |-> "returns", value |-> lastStep.root]
    ELSE tokenize(lastStep.path).k = "tokens" =>
           lastStep.result = OwnWalk(lastStep.root, tokenize(lastStep.path).tokens, 1, lastStep.path)

\* the cases of C15 about the shape: a key applied to an array throws
C15_KeyOnArrayThrows ==
  /\ lastStep.op = "selectPath"
  /\ lastStep.root = Data
  /\ lastStep.path = P_items_length
  /\ lastStep.result.k = "throws"
  /\ lastStep.result.error.got = "array"
  /\ pc = "teardown"

\* the coercion the sentence describes for an interpolated string
FiniteCoercion(s) ==
  IF s = S_null THEN JNull
  ELSE IF s = S_true THEN JBool(TRUE)
  ELSE IF s = S_false THEN JBool(FALSE)
  ELSE IF trim(s) # <<>> /\ IsFinite(Number(s)) THEN Number(s)
  ELSE JStr(s)

\* C16: parseExpected(input, world) interpolates input against world.vars and
\* coerces the result in fixed order: 'null', 'true', 'false' become null, true,
\* false; a string that is non-empty after trimming and a finite number becomes
\* that number; every other string, non-finite numbers included, stays a string.
C16_FiniteNumbersOnly ==
  lastStep.op = "parseExpected" =>
    lastStep.result = FiniteCoercion(interpolate(lastStep.input, lastStep.vars))

\* the case of C16 about variables: an interpolated value is coerced as well
C16_InterpolatedValueCoerced ==
  /\ lastStep.op = "parseExpected"
  /\ lastStep.input = T_n
  /\ V_n \in DOMAIN lastStep.vars
  /\ lastStep.result = JNum(42)

\* the login response carries a non-empty string access_token
HasToken(result) ==
  /\ result.k = "response"
  /\ result.json.k = "object"
  /\ \E i \in 1..Len(result.json.o) :
       /\ result.json.o[i][1] = K_access_token
       /\ result.json.o[i][2].k = "string"
       /\ result.json.o[i][2].s # <<>>

TokenOf(result) ==
  (CHOOSE v \in {result.json.o[i][2] : i \in {j \in 1..Len(result.json.o) :
                                                result.json.o[j][1] = K_access_token}} : TRUE).s

\* C17: apiLoginAsAdmin and apiLoginAsUser throw an error carrying the HTTP
\* status and the response text whenever the login response has no non-empty
\* string access_token, and world.headers is then exactly as it was; otherwise
\* world.headers.Authorization is 'Bearer <token>' and every other header is kept.
C17_LoginThrowsOrSetsBearer ==
  (lastStep.op = "apiLogin" /\ lastStep.result.k = "response") =>
    IF HasToken(lastStep.result)
    THEN /\ ~lastStep.threw
         /\ DOMAIN world.headers = DOMAIN lastStep.headersBefore \cup {H_Authorization}
         /\ world.headers[H_Authorization] = S_Bearer \o TokenOf(lastStep.result)
         /\ \A h \in DOMAIN lastStep.headersBefore \ {H_Authorization} :
              world.headers[h] = lastStep.headersBefore[h]
    ELSE /\ lastStep.threw
         /\ lastStep.error.status = lastStep.result.status
         /\ lastStep.error.text = lastStep.result.text
         /\ world.headers = lastStep.headersBefore
         /\ outcome = "failed"

C17_Witness ==
  /\ lastStep.op = "apiLogin"
  /\ lastStep.result.k = "response"
  /\ lastStep.result.status = 401
  /\ lastStep.threw
  /\ DOMAIN lastStep.headersBefore = {H_XTrace, H_Authorization}
  /\ pc = "teardown"

\* the other branch of C17: a token replaces an earlier Authorization header
\* and the header set before the login is still there
C17_WitnessBearer ==
  /\ lastStep.op = "apiLogin"
  /\ ~lastStep.threw
  /\ DOMAIN lastStep.headersBefore = {H_XTrace, H_Authorization}
  /\ lastStep.headersBefore[H_Authorization] = S_old
  /\ world.headers[H_Authorization] = S_Bearer \o Tok2
  /\ pc = "body"

\* C21: teardown processes the queue strictly sequentially: at most one
\* teardown request (login or cleanup) is in flight at any moment, the loop
\* turns to an item only when nothing is in flight, and a request is issued
\* only after the one before it has settled and been handled.
C21_StrictlySequential ==
  /\ [](Cardinality(inFlight) <= 1)
  /\ [](pc \in {"loop", "done"} => inFlight = {})
  /\ [](pc \in {"login", "fetch"} => inFlight = {Len(reqLog)})
  /\ [][Len(reqLog') > Len(reqLog) =>
          /\ Len(reqLog') = Len(reqLog) + 1
          /\ inFlight \subseteq {Len(reqLog)}
          /\ inFlight' = {Len(reqLog')}]_vars
  /\ [][idx' > idx /\ idx > 0 => inFlight' = {}]_vars

\* the second item's request is in flight after the first item's login and
\* request have both settled
C21_Witness ==
  /\ pc = "fetch"
  /\ idx = 2
  /\ Len(reqLog) >= 3
  /\ reqLog[1].kind = "login"
  /\ inFlight = {Len(reqLog)}

\* C22: the headers sent with a cleanup request are the union of the admin
\* headers and the item's own headers, and on a key collision (an item bringing
\* its own Authorization) the item's value is the one sent.
C22_ItemHeadersOverAdminHeaders ==
  \A n \in 1..Len(CleanupRequests) :
    LET r == CleanupRequests[n]
        own == IF "headers" \in DOMAIN items[n] THEN items[n].headers ELSE EmptyMap
    IN /\ r.path = items[n].path
       /\ DOMAIN r.headers = DOMAIN r.admin \cup DOMAIN own
       /\ \A h \in DOMAIN own : r.headers[h] = own[h]
       /\ \A h \in DOMAIN r.admin \ DOMAIN own : r.headers[h] = r.admin[h]

\* a request went out for an item with its own Authorization and X-Force
\* while the admin headers carried a bearer token
C22_Witness ==
  /\ Len(CleanupRequests) >= 1
  /\ "headers" \in DOMAIN items[1]
  /\ CleanupRequests[1].admin = [h \in {"Authorization"} |-> S_Bearer \o Tok1]
  /\ CleanupRequests[1].headers = OwnHeaders
  /\ pc \in {"fetch", "done"}

\* the step tears the tui fixture down
TuiTornNow == "tui" \in fixtures'.torn /\ "tui" \notin fixtures.torn

\* C23: after the test body the cleanup queue is processed first and the TUI
\* adapter is stopped afterwards: the tui fixture makes no stop call before
\* the last cleanup request of that test has completed.
C23_CleanupBeforeTuiStop ==
  (fixtures.tuiStopCalls > 0 /\ Len(world.cleanup) > 0 /\ ~world.skipCleanup) => pc = "done"

\* the order that keeps C23: a tui fixture set up before the world fixture is
\* stopped after the cleanup requests
C23_StoppedAfterCleanup ==
  /\ fixtures.order = <<"tui", "apiRequest", "world">>
  /\ fixtures.tuiStopCalls = 1
  /\ Len(CleanupRequests) = 1
  /\ pc = "done"

\* C24: at the teardown of the tui fixture stop() is called exactly when an
\* adapter was made and reports itself running; an error of stop() is logged
\* and never rethrown; the adapter reports not running afterwards whether or
\* not the backend's stop threw; with no createTui factory the fixture is
\* undefined and the teardown makes no stop call.
C24_TuiTeardownStopsRunningAdapter ==
  /\ [][TuiTornNow =>
          /\ (fixtures'.tuiStopCalls = fixtures.tuiStopCalls + 1)
               <=> (tui.k = "adapter" /\ tui.running /\ tui.tester # "null")
          /\ fixtures'.tuiStopCalls \in {fixtures.tuiStopCalls, fixtures.tuiStopCalls + 1}
          /\ fixtures'.tuiWarned => fixtures'.tuiStopCalls = fixtures.tuiStopCalls + 1
          /\ tui'.k = "adapter" => ~(tui'.running /\ tui'.tester # "null")
          /\ tui'.k = tui.k
          /\ <<pc, outcome, teardownThrew>>' = <<pc, outcome, teardownThrew>>]_vars
  /\ []((options.createTui = "none" /\ pc # "idle") =>
          /\ tui.k \in {"undefined", "unused"}
          /\ fixtures.tuiStopCalls = 0)

\* the backend's stop threw at the teardown of a running adapter: logged, and
\* the adapter reports not running
C24_Witness ==
  /\ "tui" \in fixtures.torn
  /\ fixtures.tuiStopCalls = 1
  /\ fixtures.tuiWarned
  /\ tui.k = "adapter"
  /\ ~tui.running
  /\ tui.tester = "null"
  /\ tui.stopped = 1

\* the other cases of C24: no factory, and an adapter that is not running
C24_WitnessNoFactory ==
  /\ "tui" \in fixtures.torn
  /\ tui.k = "undefined"
  /\ fixtures.tuiStopCalls = 0

\* C28: after any sequence of start, stop and restart calls on one
\* TuiTesterAdapter, throwing ones included, the adapter holds a backend tester
\* if and only if it reports running, so that operations on an adapter that is
\* not running fail with the 'not started' error and a start never makes a
\* second backend tester.
C28_TesterIffRunning ==
  tui.k = "adapter" =>
    /\ (tui.tester # "null") <=> isRunning(tui)
    /\ tui.created <= tui.stopped + 1
    /\ (lastStep.op = "tuiTypeText" /\ ~isRunning(lastStep.tuiBefore)) =>
         (lastStep.threw /\ ~lastStep.reachedBackend)

\* what does hold of the adapter: running implies a tester, and a clean
\* start/stop pair leaves it with neither
C28_StoppedClean ==
  /\ tui.k = "adapter"
  /\ lastStep.op = "tuiStop"
  /\ isRunning(lastStep.tuiBefore)
  /\ ~tui.running
  /\ tui.tester = "null"

\* C25: selectPath, through its tokenizer, terminates by returning a value or
\* throwing for every path string, paths with a space, a '$' or a stray ']'
\* included.
C25_SelectPathTerminates ==
  /\ pc # "hung"
  /\ lastStep.op = "selectPath" => lastStep.result.k \in {"returns", "throws"}

\* paths of name characters, '.', '[' and ']' in place do end: a bracket that
\* is never closed throws
C25_UnclosedBracketThrows ==
  /\ lastStep.op = "selectPath"
  /\ lastStep.path = P_itemsOpen
  /\ lastStep.result.k = "throws"
  /\ pc = "teardown"

\* C29: store-then-compare round trip: for every JSON scalar v at path P of the
\* last response, 'I store the value at P as V' followed by 'the value at P
\* should equal "{V}"' passes: parseExpected of the stored String(v) equals v.
C29_StoreThenCompareRoundTrip ==
  (/\ lastStep.op = "valueShouldEqual"
   /\ lastStep.expectedRaw = T_v
   /\ lastStep.actual.k = "returns"
   /\ lastStep.actual.value.k \in {"number", "boolean", "null", "string"}
   /\ V_v \in DOMAIN lastStep.vars
   /\ lastStep.vars[V_v] = JsString(lastStep.actual.value))
    => lastStep.passed

\* the round trip does hold for a number: 7 is stored as '7' and read back as 7
C29_NumberRoundTrips ==
  /\ lastStep.op = "valueShouldEqual"
  /\ lastStep.path = K_num
  /\ V_v \in DOMAIN lastStep.vars
  /\ lastStep.vars[V_v] = <<"7">>
  /\ lastStep.expected = JNum(7)
  /\ lastStep.passed
  /\ pc = "body"

\* C26: in one teardown each queued item's request is issued at most once: an
\* item answered with 401 or 403 is not sent again after the token cache was
\* cleared and refreshed; the loop moves on and only later items are sent
\* under the fresh token.
C26_EachItemRequestedOnce ==
  /\ [](\A i, j \in 1..Len(CleanupRequests) :
          i # j => ~SameItem(CleanupRequests[i], CleanupRequests[j]))
  /\ [](Len(CleanupRequests) <= Len(items))
  /\ [][(pc = "fetch" /\ pc' # "fetch") => idx' = idx + 1]_vars
  /\ [][(Len(reqLog') > Len(reqLog) /\ IsCleanupRequest(reqLog'[Len(reqLog')])) =>
          /\ Len(CleanupRequests) = idx - 1
          /\ idx' = idx]_vars

\* one teardown in which the first item's request was answered with 401 or
\* 403: a second login follows and the second item goes out under the fresh
\* token, the first item not again
C26_Witness ==
  /\ testNo = 1
  /\ pc = "done"
  /\ Len(items) = 2
  /\ Len(reqLog) = 4
  /\ reqLog[1] = LoginRequest
  /\ IsCleanupRequest(reqLog[2])
  /\ reqLog[3] = LoginRequest
  /\ IsCleanupRequest(reqLog[4])
  /\ SameItem(reqLog[2], items[1])
  /\ SameItem(reqLog[4], items[2])
  /\ reqLog[2].admin # reqLog[4].admin

\* C27: during the test body the queue is append-only and a repeated
\* registration never moves an item: every step of the body leaves the items
\* already queued at their positions, so an item registered again keeps the
\* position of its first registration and is requested at teardown in the
\* LIFO slot of that first registration.
C27_FirstRegistrationKeepsItsSlot ==
  /\ [][(pc = "body" /\ pc' = "body") =>
          /\ Len(world'.cleanup) >= Len(world.cleanup)
          /\ \A i \in 1..Len(world.cleanup) : world'.cleanup[i] = world.cleanup[i]]_vars
  /\ []((pc = "body" /\ IsRegistration(lastStep) /\ lastStep.op # "registerFromVar"
           /\ Holds(lastStep.before, RegisteredPair(lastStep))) =>
          world.cleanup = lastStep.before)
  /\ [](pc \in {"loop", "login", "fetch"} =>
          /\ Len(items) = Len(world.cleanup)
          /\ \A i \in 1..Len(items) : items[i] = world.cleanup[Len(items) + 1 - i])

\* an item queued first is registered again after a second item: the queue is
\* as it was, the item still first
C27_Witness ==
  /\ pc = "body"
  /\ lastStep.op = "registerCleanup"
  /\ Len(lastStep.before) = 2
  /\ SameItem(lastStep.before[1], RegisteredPair(lastStep))
  /\ ~SameItem(lastStep.before[2], RegisteredPair(lastStep))
  /\ world.cleanup = lastStep.before

\* C30: the per-test transport (the apiRequest context) is disposed exactly
\* once per test, only after the world teardown of that test has completed all
\* its requests, also when the test body or the world teardown throws; no login
\* or cleanup request is ever issued on a disposed transport.
C30_TransportDisposedOnceAfterCleanup ==
  /\ [](fixtures.disposals = IF apiRequest.k = "disposed" THEN 1 ELSE 0)
  /\ [][(apiRequest'.k = "disposed" /\ apiRequest.k # "disposed") =>
          /\ apiRequest.k = "context"
          /\ pc = "done"
          /\ inFlight = {}
          /\ reqLog' = reqLog]_vars
  /\ [][Len(reqLog') > Len(reqLog) => apiRequest.k = "context"]_vars
  /\ [][(testNo' > testNo /\ testNo > 0) => apiRequest.k = "disposed"]_vars

\* the transport is disposed after a failed body whose world teardown threw
\* with a login in flight before
C30_Witness ==
  /\ apiRequest.k = "disposed"
  /\ outcome = "failed"
  /\ teardownThrew
  /\ Len(reqLog) >= 1
  /\ pc = "done"

\* the transport is disposed after a teardown that issued its cleanup request
C30_WitnessAfterCleanup ==
  /\ apiRequest.k = "disposed"
  /\ Len(CleanupRequests) >= 1
  /\ ~teardownThrew
====
